---- MODULE Spec2Model ----
(***************************************************************************)
(* Trip tracking and geofencing engine of the VanGo backend:               *)
(* src/src/services/trackingService.js with its callers in                 *)
(* src/src/routes/trackingRoutes.js, the socket handlers in                *)
(* src/src/middleware/verifySupabaseJwt.js, the admin geofence route and   *)
(* the retention scheduler of src/src/server.js.                           *)
(*                                                                         *)
(* Timestamps are whole seconds.  Coordinates are integers in units of     *)
(* 1e-4 degree.  The pass-through columns speed_kmh, heading, accuracy_m  *)
(* and the points' updated_at are never read by the engine and are left    *)
(* out of the rows.                                                        *)
(***************************************************************************)
EXTENDS Integers, Sequences, FiniteSets, TLC

VARIABLES
    sessions,   \* driver_trip_sessions: trip_id -> row (unique on trip_id)
    latest,     \* active_trip_locations: trip_id -> row (primary key trip_id)
    history,    \* trip_location_history: rows in insertion order
    points,     \* trip_geofence_points: <<trip_id, label>> -> row
    events,     \* trip_geofence_events: rows in insertion order
    now,        \* the wall clock (Date.now / now())
    emitted,    \* every geofence event ever returned by saveDriverLocation, in emission order
    evaluated,  \* every (sample, active point) pair the detection loop has compared, in order
    samples,    \* number of location updates handled so far
    lastCall,   \* the handler that ran last and the reply it gave
    calls,      \* the location updates in flight: connection -> position and locals
    io,         \* the socket server: its connections, its rooms, the frames last sent
    retention   \* the retention scheduler: its timer, the sweep in flight, the last outcome

vars == <<sessions, latest, history, points, events, now, emitted, evaluated, samples,
          lastCall, calls, io, retention>>

logs == <<emitted, evaluated>>

store == <<sessions, latest, history, points, events>>

(***************************************************************************)
(* Program constants.                                                      *)
(***************************************************************************)
HISTORY_SAVE_MIN_SECONDS == 10
GEOFENCE_DEFAULT_RADIUS_METERS == 120
RETENTION_DEFAULT_DAYS == 30
SecondsPerDay == 86400

(***************************************************************************)
(* Bounds of the model.                                                    *)
(***************************************************************************)
MaxSamples == 2
MaxGeoSamples == 4
MaxConcCalls == 2
MaxSockSamples == 2
MaxPlaySamples == 3
MaxSweepSamples == 3
MaxPendCalls == 2
MaxRaceCalls == 2

(***************************************************************************)
(* Inputs.                                                                 *)
(***************************************************************************)
Absent == "absent"
NullTime == 0 - 1
NoDriver == "none"

TripIds == {"t1"}
Connections == {"c1", "c2"}
Users == {"uA", "uB", "uP"}
Labels == {"school"}
EventTypes == {"entered", "exited", "reached"}

\* the drivers table: supabase_user_id -> id; uP has no driver record
drivers == [u \in {"uA", "uB"} |-> IF u = "uA" THEN "dA" ELSE "dB"]

S1 == [latitude |-> 69271, longitude |-> 798612]
S2 == [latitude |-> 69280, longitude |-> 798620]
G1 == [latitude |-> 69280, longitude |-> 798621]
BadPos == [latitude |-> 910000, longitude |-> 798612]

SamplePositions == {S1, S2, BadPos}
PointPositions == {G1, S1}
NoRadius == 0
RadiusInputs == {NoRadius}
RecordedAtInputs == {NullTime, 5, 10}
GeoRecordedAtInputs == {NullTime}
PlayRecordedAtInputs == {NullTime, 10, 20}
SamplePhases == {"en_route_to_school"}
PhaseInputs == {Absent}
ClockValues == {0, SecondsPerDay + 5}
RetentionDaysInputs == {0, 1}
IsActiveInputs == {Absent, "false"}

(***************************************************************************)
(* Store helpers: an upsert on the table's unique key, the rows of a       *)
(* sequence that satisfy a test.                                           *)
(***************************************************************************)
Put(f, k, v) == [x \in (DOMAIN f) \cup {k} |-> IF x = k THEN v ELSE f[x]]

Rows(seq) == {seq[i] : i \in 1..Len(seq)}

MaxOf(S) == CHOOSE m \in S : \A x \in S : x <= m

(***************************************************************************)
(* Geo math.  The haversine distance of the coordinates the model uses,    *)
(* in whole metres (6371000 m sphere), tabulated from the formula.         *)
(***************************************************************************)
distanceMetersBetween(pointA, pointB) ==
    CASE pointA = pointB -> 0
      [] {pointA, pointB} = {S1, S2} -> 133
      [] {pointA, pointB} = {S1, G1} -> 141
      [] {pointA, pointB} = {S2, G1} -> 11

toIsoOrNow(value) == IF value = NullTime THEN now ELSE value

getDriverIdBySupabaseUserId(supabaseUserId) ==
    IF supabaseUserId \in DOMAIN drivers THEN drivers[supabaseUserId] ELSE NoDriver

\* locationUpdateSchema: latitude in [-90, 90], longitude in [-180, 180]
locationUpdateSchema(payload) ==
    /\ payload.latitude >= 0 - 900000 /\ payload.latitude <= 900000
    /\ payload.longitude >= 0 - 1800000 /\ payload.longitude <= 1800000

(***************************************************************************)
(* Ownership gate: TRUE when the call may go on, FALSE when it throws.     *)
(***************************************************************************)
\* mutant: the gate reads the latest-position row only
assertTripOwnedByDriver_LatestOnly(tripId, driverId) ==
    ~(tripId \in DOMAIN latest /\ latest[tripId].driverId # driverId)

assertTripOwnedByDriver(tripId, driverId) ==
    /\ ~(tripId \in DOMAIN latest /\ latest[tripId].driverId # driverId)
    /\ ~(tripId \in DOMAIN sessions /\ sessions[tripId].driverId # driverId)

(***************************************************************************)
(* saveDriverLocation, its writes one by one.                              *)
(***************************************************************************)
\* upsert on trip_id: a conflict rewrites the listed columns and keeps ended_at
upsertSessionActive(tripId, driverId, recordedAt, nowIso) ==
    Put(sessions, tripId,
        IF tripId \in DOMAIN sessions
        THEN [sessions[tripId] EXCEPT !.driverId = driverId, !.status = "active",
                                      !.startedAt = recordedAt, !.updatedAt = nowIso]
        ELSE [driverId |-> driverId, status |-> "active", startedAt |-> recordedAt,
              endedAt |-> NullTime, updatedAt |-> nowIso])

\* mutant: an insert that leaves an existing row alone instead of an upsert
upsertLatest_InsertOnly(payload, recordedAt, nowIso) ==
    IF payload.tripId \in DOMAIN latest THEN latest
    ELSE Put(latest, payload.tripId,
             [driverId |-> payload.driverId, latitude |-> payload.latitude,
              longitude |-> payload.longitude, tripPhase |-> payload.tripPhase,
              recordedAt |-> recordedAt, updatedAt |-> nowIso])

upsertLatest(payload, recordedAt, nowIso) ==
    Put(latest, payload.tripId,
        [driverId |-> payload.driverId, latitude |-> payload.latitude,
         longitude |-> payload.longitude, tripPhase |-> payload.tripPhase,
         recordedAt |-> recordedAt, updatedAt |-> nowIso])

\* mutant: a strict comparison, so a sample exactly H seconds later is dropped
canInsertHistory_Strict(tripId, recordedAtIso) ==
    LET stored == {r.recordedAt : r \in {h \in Rows(history) : h.tripId = tripId}}
    IN  IF stored = {} THEN TRUE
        ELSE recordedAtIso - MaxOf(stored) > HISTORY_SAVE_MIN_SECONDS

canInsertHistory(tripId, recordedAtIso) ==
    LET stored == {r.recordedAt : r \in {h \in Rows(history) : h.tripId = tripId}}
    IN  IF stored = {} THEN TRUE
        ELSE recordedAtIso - MaxOf(stored) >= HISTORY_SAVE_MIN_SECONDS

historyRow(payload, recordedAt) ==
    [tripId |-> payload.tripId, driverId |-> payload.driverId,
     latitude |-> payload.latitude, longitude |-> payload.longitude,
     tripPhase |-> payload.tripPhase, recordedAt |-> recordedAt, createdAt |-> now]

insertHistory(payload, recordedAt) ==
    IF canInsertHistory(payload.tripId, recordedAt)
    THEN Append(history, historyRow(payload, recordedAt))
    ELSE history

(***************************************************************************)
(* Geofence detection.                                                     *)
(***************************************************************************)
PointId(tripId, label) == <<tripId, label>>

\* the ids of the trip's active points
ActivePointIds(tripId) ==
    {pid \in DOMAIN points : pid[1] = tripId /\ points[pid].isActive}

\* getTripGeofencePoints: the active points ordered by created_at ascending;
\* rows with equal created_at come in any order
getTripGeofencePoints(tripId) ==
    LET ids == ActivePointIds(tripId)
        n == Cardinality(ids)
    IN  {ord \in [1..n -> ids] :
            /\ \A i, j \in 1..n : i # j => ord[i] # ord[j]
            /\ \A i, j \in 1..n :
                 i < j => points[ord[i]].createdAt <= points[ord[j]].createdAt}

\* getLastGeofenceEventForPoint: order by recorded_at desc limit 1.  The query
\* names no second sort key, so among the point's rows with the greatest
\* recorded_at the store may return any one.  The set of event types it can
\* return; {"none"} when the point has no row.
getLastGeofenceEventForPoint(pointId) ==
    LET rows == {e \in Rows(events) : e.pointId = pointId}
    IN  IF rows = {} THEN {"none"}
        ELSE LET top == MaxOf({e.recordedAt : e \in rows})
             IN  {e.eventType : e \in {r \in rows : r.recordedAt = top}}

hasReachedEventForPoint(evs, pointId) ==
    \E e \in Rows(evs) : e.pointId = pointId /\ e.eventType = "reached"

createGeofenceEvent(pointId, loc, eventType, distanceM) ==
    [pointId |-> pointId, driverId |-> loc.driverId, eventType |-> eventType,
     distanceM |-> distanceM, latitude |-> loc.latitude, longitude |-> loc.longitude,
     recordedAt |-> loc.recordedAt, createdAt |-> now]

\* One turn of the loop of detectAndPersistGeofenceEvents: the rows created
\* for one point, in creation order, given the last event type read.
detectPoint(evs, pointId, loc, lastType) ==
    LET point == points[pointId]
        distanceM == distanceMetersBetween(
                         [latitude |-> loc.latitude, longitude |-> loc.longitude],
                         [latitude |-> point.latitude, longitude |-> point.longitude])
        isInside == distanceM <= point.radiusM
        enteredEvent == IF isInside /\ lastType # "entered"
                        THEN <<createGeofenceEvent(pointId, loc, "entered", distanceM)>>
                        ELSE <<>>
        exitedEvent == IF ~isInside /\ lastType = "entered"
                       THEN <<createGeofenceEvent(pointId, loc, "exited", distanceM)>>
                       ELSE <<>>
        reachedEvent == IF isInside /\ ~hasReachedEventForPoint(evs, pointId)
                        THEN <<createGeofenceEvent(pointId, loc, "reached", distanceM)>>
                        ELSE <<>>
    IN  enteredEvent \o exitedEvent \o reachedEvent

RECURSIVE detectLoop(_, _, _, _, _)
detectLoop(evs, ord, i, loc, lastTypes) ==
    IF i > Len(ord) THEN <<>>
    ELSE LET created == detectPoint(evs, ord[i], loc, lastTypes[ord[i]])
         IN  created \o detectLoop(evs \o created, ord, i + 1, loc, lastTypes)

\* detectAndPersistGeofenceEvents: createdEvents, for the order the points
\* were returned in and the last event read for each of them
detectAndPersistGeofenceEvents(loc, ord, lastTypes) ==
    detectLoop(events, ord, 1, loc, lastTypes)

\* what the loop computed for one point: the point's geometry at that time,
\* whether the sample lay inside it, and the sample's recordedAt
EvaluatedRow(pointId, loc) ==
    LET point == points[pointId]
    IN  [pointId |-> pointId, latitude |-> point.latitude, longitude |-> point.longitude,
         radiusM |-> point.radiusM, recordedAt |-> loc.recordedAt,
         isInside |-> distanceMetersBetween(
                          [latitude |-> loc.latitude, longitude |-> loc.longitude],
                          [latitude |-> point.latitude, longitude |-> point.longitude])
                      <= point.radiusM]

EmittedRow(e) == [pointId |-> e.pointId, eventType |-> e.eventType]

EmittedRows(created) == [i \in 1..Len(created) |-> EmittedRow(created[i])]

\* a connection with no call in flight; storeAnswers tells whether the store
\* answers the query the call awaits, status is the one a setStatus call sets
NoPayload ==
    [tripId |-> "none", driverId |-> NoDriver, latitude |-> 0, longitude |-> 0,
     tripPhase |-> "idle", recordedAt |-> NullTime]

IdleCall ==
    [pc |-> "idle", payload |-> NoPayload, recordedAt |-> NullTime, nowIso |-> NullTime,
     points |-> <<>>, index |-> 0, lastEvent |-> "none", createdEvents |-> <<>>,
     storeAnswers |-> TRUE, status |-> "none"]

\* the reply of a handler: an error (a denial ack, an HTTP error) or a success
Failed(op, message) == [op |-> op, ok |-> FALSE, message |-> message]

Done(op) == [op |-> op, ok |-> TRUE, message |-> "ok"]

(***************************************************************************)
(* The socket server's data.  A user has one role (users_meta.role): uA    *)
(* and uB are drivers, uP and uQ are parents, and uP's child rides with    *)
(* driver dA.  A token that verifies carries its user as the subject.      *)
(***************************************************************************)
NoUser == "none"
NoParent == "none"

SocketUsers == {"uA", "uB", "uP", "uQ"}
HandshakeTokens == {"missing", "invalid"} \cup SocketUsers

\* the parents table: supabase_user_id -> id
parents == [u \in {"uP", "uQ"} |-> IF u = "uP" THEN "pP" ELSE "pQ"]

\* the children table: <<parent_id, linked_driver_id>> of every child
children == {<<"pP", "dA">>, <<"pQ", "dB">>}

ClosedSocket == [open |-> FALSE, userId |-> NoUser]

\* no connection, no room member, nothing sent, nothing refused
NoIo ==
    [sockets |-> [c \in Connections |-> ClosedSocket],
     rooms |-> {},      \* <<tripId, connection>>: the connection is in room trip:tripId
     sent |-> <<>>,     \* the frames the last handler sent, in order
     denied |-> {}]     \* <<tripId, connection>>: the connection's last subscribe was refused

\* server.js before start(): no timer, no sweep in flight, the server open
NoRetention ==
    [started |-> FALSE, timer |-> FALSE, running |-> FALSE, closed |-> FALSE,
     last |-> "none"]

(***************************************************************************)
(* The initial state: an empty store, no connection.                       *)
(***************************************************************************)
Init ==
    /\ sessions = <<>>
    /\ latest = <<>>
    /\ history = <<>>
    /\ points = <<>>
    /\ events = <<>>
    /\ now = 0
    /\ emitted = <<>>
    /\ evaluated = <<>>
    /\ samples = 0
    /\ lastCall = Done("init")
    /\ calls = [c \in Connections |-> IdleCall]
    /\ io = NoIo
    /\ retention = NoRetention


(***************************************************************************)
(* saveDriverLocation, run to its end without another call in between.     *)
(***************************************************************************)
saveDriverLocation(payload, ord, lastTypes) ==
    LET recordedAt == toIsoOrNow(payload.recordedAt)
        loc == [tripId |-> payload.tripId, driverId |-> payload.driverId,
                latitude |-> payload.latitude, longitude |-> payload.longitude,
                recordedAt |-> recordedAt]
        nowIso == now
        geofenceEvents == detectAndPersistGeofenceEvents(loc, ord, lastTypes)
    IN  /\ sessions' = upsertSessionActive(payload.tripId, payload.driverId, recordedAt, nowIso)
        /\ latest' = upsertLatest(payload, recordedAt, nowIso)
        /\ history' = insertHistory(payload, recordedAt)
        /\ events' = events \o geofenceEvents
        /\ emitted' = emitted \o EmittedRows(geofenceEvents)
        /\ evaluated' = evaluated \o [i \in 1..Len(ord) |-> EvaluatedRow(ord[i], loc)]
        /\ lastCall' = Done("location_update")
        /\ UNCHANGED points

\* the insert of saveDriverLocation the store fails: none, the history
\* insert, or the first geofence-event insert
InsertFailures == {"none", "history", "event"}

\* the failing insert is reached by this sample
insertThrows(payload, ord, lastTypes, failAt) ==
    LET recordedAt == toIsoOrNow(payload.recordedAt)
        loc == [tripId |-> payload.tripId, driverId |-> payload.driverId,
                latitude |-> payload.latitude, longitude |-> payload.longitude,
                recordedAt |-> recordedAt]
    IN  \/ failAt = "history" /\ canInsertHistory(payload.tripId, recordedAt)
        \/ failAt = "event" /\ detectAndPersistGeofenceEvents(loc, ord, lastTypes) # <<>>

\* saveDriverLocation up to the insert that fails: the session and latest
\* upserts are kept, the history row too when the event insert fails, and
\* the error is thrown to the handler
saveDriverLocationThrows(payload, failAt) ==
    LET recordedAt == toIsoOrNow(payload.recordedAt)
        nowIso == now
    IN  /\ sessions' = upsertSessionActive(payload.tripId, payload.driverId, recordedAt, nowIso)
        /\ latest' = upsertLatest(payload, recordedAt, nowIso)
        /\ history' = IF failAt = "history" THEN history
                      ELSE insertHistory(payload, recordedAt)
        /\ lastCall' = Failed("location_update", "Location update failed")
        /\ UNCHANGED <<points, events, logs>>

(***************************************************************************)
(* The socket handler driver:location_update, with the insert the store    *)
(* fails during the call.                                                  *)
(***************************************************************************)
LocationUpdateWith(userId, payload, failAt) ==
    LET driverId == getDriverIdBySupabaseUserId(userId)
        full == [tripId |-> payload.tripId, driverId |-> driverId,
                 latitude |-> payload.latitude, longitude |-> payload.longitude,
                 tripPhase |-> payload.tripPhase, recordedAt |-> payload.recordedAt]
    IN  /\ IF ~locationUpdateSchema(payload)
           THEN /\ lastCall' = Failed("location_update", "Invalid location payload")
                /\ UNCHANGED <<store, logs, samples>>
           ELSE IF driverId = NoDriver
           THEN /\ lastCall' = Failed("location_update", "Only drivers can publish location")
                /\ UNCHANGED <<store, logs, samples>>
           ELSE IF ~assertTripOwnedByDriver(payload.tripId, driverId)
           THEN /\ lastCall' = Failed("location_update", "Location update failed")
                /\ UNCHANGED <<store, logs, samples>>
           ELSE /\ \E ord \in getTripGeofencePoints(payload.tripId) :
                   \E lastTypes \in [ActivePointIds(payload.tripId) -> EventTypes \cup {"none"}] :
                      /\ \A pid \in ActivePointIds(payload.tripId) :
                            lastTypes[pid] \in getLastGeofenceEventForPoint(pid)
                      /\ IF insertThrows(full, ord, lastTypes, failAt)
                         THEN saveDriverLocationThrows(full, failAt)
                         ELSE saveDriverLocation(full, ord, lastTypes)
                /\ samples' = samples + 1
        /\ UNCHANGED now

\* the handler when the store fails no insert
LocationUpdate(userId, payload) ==
    /\ LocationUpdateWith(userId, payload, "none")
    /\ UNCHANGED calls

LocationPayloads(trips, positions, times) ==
    {[tripId |-> t, latitude |-> pos.latitude, longitude |-> pos.longitude,
      tripPhase |-> ph, recordedAt |-> at] :
        t \in trips, pos \in positions, ph \in SamplePhases, at \in times}

(***************************************************************************)
(* Trip session store.                                                     *)
(***************************************************************************)
\* mutant: the phase update also stamps the position's recordedAt
updateTripSessionStatus_StampsPosition(tripId, driverId, status, tripPhase) ==
    /\ sessions' = Put(sessions, tripId,
                       [driverId |-> driverId, status |-> status,
                        startedAt |-> now,
                        endedAt |-> IF status = "completed" THEN now ELSE NullTime,
                        updatedAt |-> now])
    /\ latest' = IF tripId \in DOMAIN latest /\ latest[tripId].driverId = driverId
                 THEN [latest EXCEPT ![tripId].tripPhase = tripPhase,
                                     ![tripId].recordedAt = now + 1,
                                     ![tripId].updatedAt = now]
                 ELSE latest
    /\ lastCall' = Done("set_status")
    /\ UNCHANGED <<history, points, events, logs>>

\* the writes of updateTripSessionStatus once the ownership gate is passed
updateTripSessionStatus(tripId, driverId, status, tripPhase) ==
    LET safeTripPhase == IF tripPhase # Absent THEN tripPhase
                         ELSE IF status = "completed" THEN "completed"
                         ELSE "en_route_to_pickups"
    IN  /\ sessions' = Put(sessions, tripId,
                           [driverId |-> driverId, status |-> status,
                            startedAt |-> now,
                            endedAt |-> IF status = "completed" THEN now ELSE NullTime,
                            updatedAt |-> now])
        /\ latest' = IF tripId \in DOMAIN latest /\ latest[tripId].driverId = driverId
                     THEN [latest EXCEPT ![tripId].tripPhase = safeTripPhase,
                                         ![tripId].updatedAt = now]
                     ELSE latest
        /\ lastCall' = Done("set_status")
        /\ UNCHANGED <<history, points, events, logs>>

\* the phase a route hands down when the body names none
RoutePhase(status, bodyPhase) ==
    IF status = "completed" THEN "completed"
    ELSE IF bodyPhase # Absent THEN bodyPhase
    ELSE IF status = "paused" THEN "picking_up"
    ELSE "en_route_to_pickups"

\* POST /tracking/trips/:tripId/start, /pause and /end
SetStatus(userId, tripId, status, bodyPhase) ==
    LET driverId == getDriverIdBySupabaseUserId(userId)
    IN  /\ IF driverId = NoDriver
           THEN /\ lastCall' = Failed("set_status", "Only drivers")
                /\ UNCHANGED <<store, logs>>
           ELSE IF ~assertTripOwnedByDriver(tripId, driverId)
           THEN /\ lastCall' = Failed("set_status", "Failed to update trip session")
                /\ UNCHANGED <<store, logs>>
           ELSE updateTripSessionStatus(tripId, driverId, status,
                                        RoutePhase(status, bodyPhase))
        /\ UNCHANGED <<now, samples, calls, io, retention>>

\* the sessions the lookup of startOrCreateTripSessionForDriver can return:
\* the driver's active or paused ones with the greatest updated_at
OpenSessions(driverId) ==
    LET open == {t \in DOMAIN sessions :
                    /\ sessions[t].driverId = driverId
                    /\ sessions[t].status \in {"active", "paused"}}
    IN  {t \in open : \A u \in open : sessions[u].updatedAt <= sessions[t].updatedAt}

\* randomUUID: an identifier no row carries yet
\* the identifiers randomUUID can return
UuidSpace == {"t1", "t2"}

FreshTripIds == UuidSpace \ (DOMAIN sessions \cup DOMAIN latest)

\* mutant: the lookup of an open session is skipped
startOrCreateTripSessionForDriver_AlwaysCreate(driverId, tripPhase) ==
    \E tripId \in FreshTripIds :
        /\ sessions' = Put(sessions, tripId,
                           [driverId |-> driverId, status |-> "active",
                            startedAt |-> now, endedAt |-> NullTime,
                            updatedAt |-> now])
        /\ lastCall' = Done("start_or_resume")
        /\ UNCHANGED <<latest, history, points, events, logs>>

startOrCreateTripSessionForDriver(driverId, tripPhase) ==
    IF OpenSessions(driverId) # {}
    THEN \E tripId \in OpenSessions(driverId) :
            IF assertTripOwnedByDriver(tripId, driverId)
            THEN updateTripSessionStatus(tripId, driverId, "active", tripPhase)
            ELSE /\ lastCall' = Failed("start_or_resume", "Failed to start trip session")
                 /\ UNCHANGED <<store, logs>>
    ELSE \E tripId \in FreshTripIds :
            /\ sessions' = Put(sessions, tripId,
                               [driverId |-> driverId, status |-> "active",
                                startedAt |-> now, endedAt |-> NullTime,
                                updatedAt |-> now])
            /\ lastCall' = Done("start_or_resume")
            /\ UNCHANGED <<latest, history, points, events, logs>>

\* POST /tracking/trips/start
StartOrResume(userId, bodyPhase) ==
    LET driverId == getDriverIdBySupabaseUserId(userId)
    IN  /\ IF driverId = NoDriver
           THEN /\ lastCall' = Failed("start_or_resume", "Only drivers")
                /\ UNCHANGED <<store, logs>>
           ELSE startOrCreateTripSessionForDriver(driverId, RoutePhase("active", bodyPhase))
        /\ UNCHANGED <<now, samples, calls, io, retention>>

(***************************************************************************)
(* Geofence registry.                                                      *)
(***************************************************************************)
resolveTripDriverId(tripId) ==
    IF tripId \in DOMAIN latest THEN latest[tripId].driverId
    ELSE IF tripId \in DOMAIN sessions THEN sessions[tripId].driverId
    ELSE NoDriver

\* upsert on (trip_id, label): a conflict keeps the row's id and created_at
upsertTripGeofencePoint(tripId, driverId, label, pos, radiusM, isActive) ==
    LET pid == PointId(tripId, label)
    IN  Put(points, pid,
            [driverId |-> driverId, latitude |-> pos.latitude,
             longitude |-> pos.longitude,
             radiusM |-> IF radiusM = NoRadius THEN GEOFENCE_DEFAULT_RADIUS_METERS
                         ELSE radiusM,
             isActive |-> (isActive # "false"),
             createdAt |-> IF pid \in DOMAIN points THEN points[pid].createdAt ELSE now])

\* PUT /admin/tracking/trips/:tripId/geofence-points
UpsertGeofencePoint(tripId, label, pos, radiusM, isActive) ==
    LET driverId == resolveTripDriverId(tripId)
    IN  /\ IF driverId = NoDriver
           THEN /\ lastCall' = Failed("upsert_point", "Trip not found")
                /\ UNCHANGED points
           ELSE /\ points' = upsertTripGeofencePoint(tripId, driverId, label, pos,
                                                     radiusM, isActive)
                /\ lastCall' = Done("upsert_point")
        /\ UNCHANGED <<sessions, latest, history, events, now, logs, samples, calls, io, retention>>

(***************************************************************************)
(* Retention sweeper.                                                      *)
(***************************************************************************)
\* mutant: the threshold is the present moment
deleteBeforeIsoDate_Now(days) == now

deleteBeforeIsoDate(days) == now - days * SecondsPerDay

KeepFrom(seq, thresholdIso) == SelectSeq(seq, LAMBDA r : ~(r.createdAt < thresholdIso))

cleanupTrackingHistory(olderThanDays) ==
    LET days == IF (IF olderThanDays = 0 THEN RETENTION_DEFAULT_DAYS ELSE olderThanDays) > 1
                THEN (IF olderThanDays = 0 THEN RETENTION_DEFAULT_DAYS ELSE olderThanDays)
                ELSE 1
        thresholdIso == deleteBeforeIsoDate(days)
    IN  /\ history' = KeepFrom(history, thresholdIso)
        /\ events' = KeepFrom(events, thresholdIso)
        /\ lastCall' = Done("cleanup")
        /\ UNCHANGED <<sessions, latest, points, now, logs, samples, calls, io>>

\* runRetentionCleanup, on the scheduler's timer
RunRetentionCleanup ==
    /\ \E days \in RetentionDaysInputs : cleanupTrackingHistory(days)
    /\ UNCHANGED retention

(***************************************************************************)
(* The clock.                                                              *)
(***************************************************************************)
Tick ==
    /\ \E t \in ClockValues : t > now /\ now' = t
    /\ lastCall' = Done("tick")
    /\ UNCHANGED <<store, logs, samples, calls, io, retention>>

(***************************************************************************)
(* The retention scheduler of server.js: the first sweep at start, one     *)
(* sweep at every interval, the timer cleared by the onClose hook.  A      *)
(* sweep is in flight from its start to the store's answer; the interval   *)
(* is longer than a sweep.                                                 *)
(***************************************************************************)
\* what the store fails during a sweep: the history or the geofence deletion
SweepFailures == {"history", "geofence"}

\* mutant: the error of a failed sweep escapes and takes the timer down
runRetentionCleanupEnds_Crash(r, outcome) ==
    [r EXCEPT !.running = FALSE, !.last = outcome,
              !.timer = IF outcome = "failed" THEN FALSE ELSE r.timer]

\* runRetentionCleanup once cleanupTrackingHistory answered or threw: the
\* outcome is logged, the timer is as it was
runRetentionCleanupEnds(r, outcome) ==
    [r EXCEPT !.running = FALSE, !.last = outcome]

\* startRetentionCleanupScheduler, for TRACKING_RETENTION_ENABLED
startRetentionCleanupScheduler(enabled) ==
    /\ ~retention.started
    /\ retention' = IF enabled
                    THEN [retention EXCEPT !.started = TRUE, !.running = TRUE,
                                           !.timer = TRUE]
                    ELSE [retention EXCEPT !.started = TRUE]
    /\ lastCall' = Done("start_scheduler")
    /\ UNCHANGED <<store, now, logs, samples, calls, io>>

\* the interval elapses: setInterval calls runRetentionCleanup
TimerFires ==
    /\ retention.timer
    /\ ~retention.running
    /\ retention' = [retention EXCEPT !.running = TRUE]
    /\ lastCall' = Done("sweep_started")
    /\ UNCHANGED <<store, now, logs, samples, calls, io>>

\* the sweep in flight deletes and is logged as completed
SweepCompletes ==
    /\ retention.running
    /\ \E days \in RetentionDaysInputs : cleanupTrackingHistory(days)
    /\ retention' = runRetentionCleanupEnds(retention, "completed")

\* the store fails a deletion of the sweep in flight: cleanupTrackingHistory
\* throws, runRetentionCleanup catches and logs
SweepFails(failAt) ==
    /\ retention.running
    /\ \E olderThanDays \in RetentionDaysInputs :
          LET chosen == IF olderThanDays = 0 THEN RETENTION_DEFAULT_DAYS ELSE olderThanDays
              days == IF chosen > 1 THEN chosen ELSE 1
          IN  history' = IF failAt = "history" THEN history
                         ELSE KeepFrom(history, deleteBeforeIsoDate(days))
    /\ retention' = runRetentionCleanupEnds(retention, "failed")
    /\ lastCall' = Failed("cleanup", "Tracking retention cleanup failed")
    /\ UNCHANGED <<sessions, latest, points, events, now, logs, samples, calls, io>>

\* the onClose hook: clearInterval
OnClose ==
    /\ retention.started
    /\ ~retention.closed
    /\ retention' = [retention EXCEPT !.timer = FALSE, !.closed = TRUE]
    /\ lastCall' = Done("close")
    /\ UNCHANGED <<store, now, logs, samples, calls, io>>

(***************************************************************************)
(* The scheduler at work while a driver publishes, a checkpoint exists and *)
(* the clock moves past the retention window.                              *)
(***************************************************************************)
NextSweep ==
    \/ \E enabled \in BOOLEAN : startRetentionCleanupScheduler(enabled)
    \/ TimerFires
    \/ SweepCompletes
    \/ \E failAt \in SweepFailures : SweepFails(failAt)
    \/ OnClose
    \/ /\ samples < MaxSweepSamples
       /\ \E payload \in LocationPayloads({"t1"}, {S2}, GeoRecordedAtInputs) :
             LocationUpdate("uA", payload)
       /\ UNCHANGED <<io, retention>>
    \/ \E label \in Labels : UpsertGeofencePoint("t1", label, G1, NoRadius, Absent)
    \/ Tick

SpecSweep == Init /\ [][NextSweep]_vars

\* the timer of setInterval fires as long as it is set
SpecSweepLive == SpecSweep /\ WF_vars(TimerFires)

(***************************************************************************)
(* Every handler of the drivers, called by any user for any trip, with the *)
(* administrator creating the trip's checkpoint.  The clients stamp their  *)
(* samples themselves or leave it to the server; the clock, the retention  *)
(* sweeper and the moving and deactivating of checkpoints are left to      *)
(* SpecGeo.                                                                *)
(***************************************************************************)
Next ==
    \/ /\ samples < MaxSamples
       /\ \E userId \in Users, payload \in LocationPayloads(TripIds, SamplePositions, RecordedAtInputs) :
           LocationUpdate(userId, payload)
       /\ UNCHANGED <<io, retention>>
    \/ \E userId \in Users, tripId \in TripIds, status \in {"active", "paused", "completed"},
          bodyPhase \in PhaseInputs : SetStatus(userId, tripId, status, bodyPhase)
    \/ \E userId \in Users, bodyPhase \in PhaseInputs : StartOrResume(userId, bodyPhase)
    \/ \E tripId \in TripIds, label \in Labels :
           UpsertGeofencePoint(tripId, label, G1, NoRadius, Absent)

Spec == Init /\ [][Next]_vars

(***************************************************************************)
(* One driver starting a trip and publishing on it while the administrator *)
(* creates, moves, deactivates and reactivates its checkpoint and the       *)
(* retention sweeper runs.                                                 *)
(***************************************************************************)
NextGeo ==
    \/ \E bodyPhase \in PhaseInputs : StartOrResume("uA", bodyPhase)
    \/ /\ samples < MaxGeoSamples
       /\ \E payload \in LocationPayloads({"t1"}, {S1, S2}, GeoRecordedAtInputs) : LocationUpdate("uA", payload)
       /\ UNCHANGED <<io, retention>>
    \/ \E label \in Labels, pos \in PointPositions, radiusM \in RadiusInputs,
          isActive \in IsActiveInputs :
            UpsertGeofencePoint("t1", label, pos, radiusM, isActive)
    \/ RunRetentionCleanup
    \/ Tick

SpecGeo == Init /\ [][NextGeo]_vars

(***************************************************************************)
(* driver:location_update, one store query at a time.  Each await of       *)
(* saveDriverLocation and detectAndPersistGeofenceEvents is a step of its   *)
(* own, so the calls of different connections interleave between queries.   *)
(***************************************************************************)
Resume(c, call) == calls' = [calls EXCEPT ![c] = call]

At(c, pc) == calls[c].pc = pc

CallLocation(call) == [call.payload EXCEPT !.recordedAt = call.recordedAt]

CallPoint(call) == call.points[call.index]

CallDistanceM(call) ==
    distanceMetersBetween(
        [latitude |-> call.payload.latitude, longitude |-> call.payload.longitude],
        [latitude |-> CallPoint(call).latitude, longitude |-> CallPoint(call).longitude])

CallIsInside(call) == CallDistanceM(call) <= CallPoint(call).radiusM

\* the end of one turn of the loop: the next point, or the return
NextPoint(call) ==
    IF call.index < Len(call.points)
    THEN [call EXCEPT !.index = call.index + 1, !.pc = "lastEvent"]
    ELSE [call EXCEPT !.pc = "reply"]

\* the rows getTripGeofencePoints hands to the loop
PointRows(ord) ==
    [i \in 1..Len(ord) |->
        [id |-> ord[i], latitude |-> points[ord[i]].latitude,
         longitude |-> points[ord[i]].longitude, radiusM |-> points[ord[i]].radiusM]]

ReceiveLocationUpdate(c, userId, payload) ==
    LET driverId == getDriverIdBySupabaseUserId(userId)
        full == [tripId |-> payload.tripId, driverId |-> driverId,
                 latitude |-> payload.latitude, longitude |-> payload.longitude,
                 tripPhase |-> payload.tripPhase, recordedAt |-> payload.recordedAt]
    IN  /\ At(c, "idle")
        /\ IF ~locationUpdateSchema(payload)
           THEN /\ lastCall' = Failed("location_update", "Invalid location payload")
                /\ UNCHANGED <<calls, samples>>
           ELSE IF driverId = NoDriver
           THEN /\ lastCall' = Failed("location_update", "Only drivers can publish location")
                /\ UNCHANGED <<calls, samples>>
           ELSE /\ Resume(c, [IdleCall EXCEPT !.pc = "assertLatest", !.payload = full])
                /\ samples' = samples + 1
                /\ UNCHANGED lastCall
        /\ UNCHANGED <<io, retention, store, now, logs>>

StepAssertLatest(c) ==
    LET call == calls[c]
    IN  /\ At(c, "assertLatest")
        /\ IF /\ call.payload.tripId \in DOMAIN latest
              /\ latest[call.payload.tripId].driverId # call.payload.driverId
           THEN /\ lastCall' = Failed("location_update", "Location update failed")
                /\ Resume(c, IdleCall)
           ELSE /\ Resume(c, [call EXCEPT !.pc = "assertSession"])
                /\ UNCHANGED lastCall
        /\ UNCHANGED <<io, retention, store, now, logs, samples>>

StepAssertSession(c) ==
    LET call == calls[c]
    IN  /\ At(c, "assertSession")
        /\ IF /\ call.payload.tripId \in DOMAIN sessions
              /\ sessions[call.payload.tripId].driverId # call.payload.driverId
           THEN /\ lastCall' = Failed("location_update", "Location update failed")
                /\ Resume(c, IdleCall)
           ELSE /\ Resume(c, [call EXCEPT !.pc = "upsertSession",
                                          !.recordedAt = toIsoOrNow(call.payload.recordedAt),
                                          !.nowIso = now])
                /\ UNCHANGED lastCall
        /\ UNCHANGED <<io, retention, store, now, logs, samples>>

StepUpsertSession(c) ==
    LET call == calls[c]
    IN  /\ At(c, "upsertSession")
        /\ sessions' = upsertSessionActive(call.payload.tripId, call.payload.driverId,
                                           call.recordedAt, call.nowIso)
        /\ Resume(c, [call EXCEPT !.pc = "upsertLatest"])
        /\ UNCHANGED <<io, retention, latest, history, points, events, now, logs, samples, lastCall>>

StepUpsertLatest(c) ==
    LET call == calls[c]
    IN  /\ At(c, "upsertLatest")
        /\ latest' = upsertLatest(call.payload, call.recordedAt, call.nowIso)
        /\ Resume(c, [call EXCEPT !.pc = "canInsertHistory"])
        /\ UNCHANGED <<io, retention, sessions, history, points, events, now, logs, samples, lastCall>>

StepCanInsertHistory(c) ==
    LET call == calls[c]
    IN  /\ At(c, "canInsertHistory")
        /\ Resume(c, [call EXCEPT !.pc =
                         IF canInsertHistory(call.payload.tripId, call.recordedAt)
                         THEN "insertHistory" ELSE "getPoints"])
        /\ UNCHANGED <<io, retention, store, now, logs, samples, lastCall>>

StepInsertHistory(c) ==
    LET call == calls[c]
    IN  /\ At(c, "insertHistory")
        /\ history' = Append(history, historyRow(call.payload, call.recordedAt))
        /\ Resume(c, [call EXCEPT !.pc = "getPoints"])
        /\ UNCHANGED <<io, retention, sessions, latest, points, events, now, logs, samples, lastCall>>

StepGetPoints(c) ==
    LET call == calls[c]
    IN  /\ At(c, "getPoints")
        /\ \E ord \in getTripGeofencePoints(call.payload.tripId) :
              Resume(c, IF Len(ord) = 0
                        THEN [call EXCEPT !.pc = "reply"]
                        ELSE [call EXCEPT !.pc = "lastEvent", !.points = PointRows(ord),
                                          !.index = 1])
        /\ UNCHANGED <<io, retention, store, now, logs, samples, lastCall>>

\* the loop's comparison and its lookup of the point's last event
StepLastEvent(c) ==
    LET call == calls[c]
        point == CallPoint(call)
        isInside == CallIsInside(call)
    IN  /\ At(c, "lastEvent")
        /\ \E lastEvent \in getLastGeofenceEventForPoint(point.id) :
              Resume(c, IF isInside /\ lastEvent # "entered"
                        THEN [call EXCEPT !.lastEvent = lastEvent, !.pc = "createEntered"]
                        ELSE IF ~isInside /\ lastEvent = "entered"
                        THEN [call EXCEPT !.lastEvent = lastEvent, !.pc = "createExited"]
                        ELSE IF isInside
                        THEN [call EXCEPT !.lastEvent = lastEvent, !.pc = "hasReached"]
                        ELSE NextPoint([call EXCEPT !.lastEvent = lastEvent]))
        /\ evaluated' = Append(evaluated,
                               [pointId |-> point.id, latitude |-> point.latitude,
                                longitude |-> point.longitude, radiusM |-> point.radiusM,
                                recordedAt |-> call.recordedAt, isInside |-> isInside])
        /\ UNCHANGED <<io, retention, store, now, emitted, samples, lastCall>>

\* createGeofenceEvent for the running call, and the push to createdEvents
StepCreate(c, pc, eventType, next) ==
    LET call == calls[c]
        row == createGeofenceEvent(CallPoint(call).id, CallLocation(call), eventType,
                                   CallDistanceM(call))
        pushed == [call EXCEPT !.createdEvents = Append(call.createdEvents, row)]
    IN  /\ At(c, pc)
        /\ events' = Append(events, row)
        /\ Resume(c, IF next = "hasReached" THEN [pushed EXCEPT !.pc = "hasReached"]
                     ELSE NextPoint(pushed))
        /\ UNCHANGED <<io, retention, sessions, latest, history, points, now, logs, samples, lastCall>>

StepHasReached(c) ==
    LET call == calls[c]
    IN  /\ At(c, "hasReached")
        /\ Resume(c, IF hasReachedEventForPoint(events, CallPoint(call).id)
                     THEN NextPoint(call)
                     ELSE [call EXCEPT !.pc = "createReached"])
        /\ UNCHANGED <<io, retention, store, now, logs, samples, lastCall>>

\* the handler after saveDriverLocation returned: the broadcasts and the ack
StepReply(c) ==
    LET call == calls[c]
    IN  /\ At(c, "reply")
        /\ emitted' = emitted \o EmittedRows(call.createdEvents)
        /\ lastCall' = Done("location_update")
        /\ Resume(c, IdleCall)
        /\ UNCHANGED <<io, retention, store, now, evaluated, samples>>

(***************************************************************************)
(* One driver whose client sends location updates for one trip over two     *)
(* connections (a reconnect, a retried request), with the trip started and  *)
(* its checkpoint created by the usual handlers.                           *)
(***************************************************************************)
NextConc ==
    \/ \E bodyPhase \in PhaseInputs : StartOrResume("uA", bodyPhase)
    \/ \E label \in Labels : UpsertGeofencePoint("t1", label, G1, NoRadius, Absent)
    \/ /\ samples < MaxConcCalls
       /\ \E c \in Connections, payload \in LocationPayloads({"t1"}, {S1, S2}, GeoRecordedAtInputs) :
             ReceiveLocationUpdate(c, "uA", payload)
    \/ \E c \in Connections : StepAssertLatest(c)
    \/ \E c \in Connections : StepAssertSession(c)
    \/ \E c \in Connections : StepUpsertSession(c)
    \/ \E c \in Connections : StepUpsertLatest(c)
    \/ \E c \in Connections : StepCanInsertHistory(c)
    \/ \E c \in Connections : StepInsertHistory(c)
    \/ \E c \in Connections : StepGetPoints(c)
    \/ \E c \in Connections : StepLastEvent(c)
    \/ \E c \in Connections : StepCreate(c, "createEntered", "entered", "hasReached")
    \/ \E c \in Connections : StepCreate(c, "createExited", "exited", "nextPoint")
    \/ \E c \in Connections : StepHasReached(c)
    \/ \E c \in Connections : StepCreate(c, "createReached", "reached", "nextPoint")
    \/ \E c \in Connections : StepReply(c)

SpecConc == Init /\ [][NextConc]_vars

(***************************************************************************)
(* updateTripSessionStatus, one store query at a time, as the routes       *)
(* /start, /pause and /end call it.                                        *)
(***************************************************************************)
ReceiveSetStatus(c, userId, tripId, status, bodyPhase) ==
    LET driverId == getDriverIdBySupabaseUserId(userId)
    IN  /\ At(c, "idle")
        /\ IF driverId = NoDriver
           THEN /\ lastCall' = Failed("set_status", "Only drivers")
                /\ UNCHANGED calls
           ELSE /\ Resume(c, [IdleCall EXCEPT !.pc = "statusAssertLatest",
                                              !.payload.tripId = tripId,
                                              !.payload.driverId = driverId,
                                              !.payload.tripPhase = RoutePhase(status, bodyPhase),
                                              !.status = status])
                /\ UNCHANGED lastCall
        /\ UNCHANGED <<io, retention, store, now, logs, samples>>

StepStatusAssertLatest(c) ==
    LET call == calls[c]
    IN  /\ At(c, "statusAssertLatest")
        /\ IF /\ call.payload.tripId \in DOMAIN latest
              /\ latest[call.payload.tripId].driverId # call.payload.driverId
           THEN /\ lastCall' = Failed("set_status", "Failed to update trip session")
                /\ Resume(c, IdleCall)
           ELSE /\ Resume(c, [call EXCEPT !.pc = "statusAssertSession"])
                /\ UNCHANGED lastCall
        /\ UNCHANGED <<io, retention, store, now, logs, samples>>

StepStatusAssertSession(c) ==
    LET call == calls[c]
    IN  /\ At(c, "statusAssertSession")
        /\ IF /\ call.payload.tripId \in DOMAIN sessions
              /\ sessions[call.payload.tripId].driverId # call.payload.driverId
           THEN /\ lastCall' = Failed("set_status", "Failed to update trip session")
                /\ Resume(c, IdleCall)
           ELSE /\ Resume(c, [call EXCEPT !.pc = "statusUpsertSession", !.nowIso = now])
                /\ UNCHANGED lastCall
        /\ UNCHANGED <<io, retention, store, now, logs, samples>>

\* the upsert on trip_id: every column of the row is rewritten
StepStatusUpsertSession(c) ==
    LET call == calls[c]
    IN  /\ At(c, "statusUpsertSession")
        /\ sessions' = Put(sessions, call.payload.tripId,
                           [driverId |-> call.payload.driverId, status |-> call.status,
                            startedAt |-> call.nowIso,
                            endedAt |-> IF call.status = "completed" THEN call.nowIso
                                        ELSE NullTime,
                            updatedAt |-> call.nowIso])
        /\ Resume(c, [call EXCEPT !.pc = "statusUpdateLatest"])
        /\ UNCHANGED <<io, retention, latest, history, points, events, now, logs, samples, lastCall>>

\* the update of the latest row of this trip and driver, and the return
StepStatusUpdateLatest(c) ==
    LET call == calls[c]
        tripId == call.payload.tripId
    IN  /\ At(c, "statusUpdateLatest")
        /\ latest' = IF tripId \in DOMAIN latest /\ latest[tripId].driverId = call.payload.driverId
                     THEN [latest EXCEPT ![tripId].tripPhase = call.payload.tripPhase,
                                         ![tripId].updatedAt = call.nowIso]
                     ELSE latest
        /\ lastCall' = Done("set_status")
        /\ Resume(c, IdleCall)
        /\ UNCHANGED <<io, retention, sessions, history, points, events, now, logs, samples>>

(***************************************************************************)
(* Two drivers calling for the same trip: location updates and status      *)
(* changes whose queries interleave.                                       *)
(***************************************************************************)
NextRace ==
    \/ /\ samples < MaxRaceCalls
       /\ \E c \in Connections, userId \in {"uA", "uB"},
             payload \in LocationPayloads({"t1"}, {S2}, GeoRecordedAtInputs) :
               ReceiveLocationUpdate(c, userId, payload)
    \/ \E c \in Connections, userId \in {"uA", "uB"}, status \in {"paused", "completed"} :
           ReceiveSetStatus(c, userId, "t1", status, Absent)
    \/ \E c \in Connections : StepStatusAssertLatest(c)
    \/ \E c \in Connections : StepStatusAssertSession(c)
    \/ \E c \in Connections : StepStatusUpsertSession(c)
    \/ \E c \in Connections : StepStatusUpdateLatest(c)
    \/ \E c \in Connections : StepAssertLatest(c)
    \/ \E c \in Connections : StepAssertSession(c)
    \/ \E c \in Connections : StepUpsertSession(c)
    \/ \E c \in Connections : StepUpsertLatest(c)
    \/ \E c \in Connections : StepCanInsertHistory(c)
    \/ \E c \in Connections : StepInsertHistory(c)
    \/ \E c \in Connections : StepGetPoints(c)
    \/ \E c \in Connections : StepReply(c)

SpecRace == Init /\ [][NextRace]_vars

(***************************************************************************)
(* startOrCreateTripSessionForDriver, one store query at a time: the       *)
(* lookup of the driver's open session, then the resume through            *)
(* updateTripSessionStatus or the insert under a new identifier.           *)
(***************************************************************************)
ReceiveStart(c, userId, bodyPhase) ==
    LET driverId == getDriverIdBySupabaseUserId(userId)
    IN  /\ At(c, "idle")
        /\ IF driverId = NoDriver
           THEN /\ lastCall' = Failed("start_or_resume", "Only drivers")
                /\ UNCHANGED calls
           ELSE /\ Resume(c, [IdleCall EXCEPT !.pc = "startLookup",
                                              !.payload.driverId = driverId,
                                              !.payload.tripPhase = RoutePhase("active", bodyPhase),
                                              !.nowIso = now,
                                              !.status = "active"])
                /\ UNCHANGED lastCall
        /\ UNCHANGED <<io, retention, store, now, logs, samples>>

StepStartLookup(c) ==
    LET call == calls[c]
        open == OpenSessions(call.payload.driverId)
    IN  /\ At(c, "startLookup")
        /\ IF open # {}
           THEN \E tripId \in open :
                   Resume(c, [call EXCEPT !.pc = "statusAssertLatest",
                                          !.payload.tripId = tripId])
           ELSE Resume(c, [call EXCEPT !.pc = "startInsert"])
        /\ UNCHANGED <<io, retention, store, now, logs, samples, lastCall>>

StepStartInsert(c) ==
    LET call == calls[c]
    IN  /\ At(c, "startInsert")
        /\ \E tripId \in FreshTripIds :
              sessions' = Put(sessions, tripId,
                              [driverId |-> call.payload.driverId, status |-> "active",
                               startedAt |-> call.nowIso, endedAt |-> NullTime,
                               updatedAt |-> call.nowIso])
        /\ lastCall' = Done("start_or_resume")
        /\ Resume(c, IdleCall)
        /\ UNCHANGED <<io, retention, latest, history, points, events, now, logs, samples>>

(***************************************************************************)
(* One driver whose client sends POST /tracking/trips/start over two       *)
(* connections at once, and ends trips.                                    *)
(***************************************************************************)
NextStart ==
    \/ \E c \in Connections, bodyPhase \in PhaseInputs : ReceiveStart(c, "uA", bodyPhase)
    \/ \E c \in Connections : StepStartLookup(c)
    \/ \E c \in Connections : StepStartInsert(c)
    \/ \E c \in Connections, tripId \in UuidSpace :
           ReceiveSetStatus(c, "uA", tripId, "completed", Absent)
    \/ \E c \in Connections : StepStatusAssertLatest(c)
    \/ \E c \in Connections : StepStatusAssertSession(c)
    \/ \E c \in Connections : StepStatusUpsertSession(c)
    \/ \E c \in Connections : StepStatusUpdateLatest(c)

SpecStart == Init /\ [][NextStart]_vars

(***************************************************************************)
(* The socket server: the handshake, the two handlers, the disconnect.     *)
(* Every call carries an acknowledgement callback.                         *)
(***************************************************************************)
getParentIdBySupabaseUserId(supabaseUserId) ==
    IF supabaseUserId \in DOMAIN parents THEN parents[supabaseUserId] ELSE NoParent

isParentLinkedToDriver(parentId, driverId) == <<parentId, driverId>> \in children

\* mutant: every parent may watch every trip
canSupabaseUserAccessTrip_AnyParent(supabaseUserId, tripId) ==
    IF supabaseUserId \in DOMAIN parents /\ resolveTripDriverId(tripId) # NoDriver
    THEN [allowed |-> TRUE, userType |-> "parent", reason |-> "Forbidden"]
    ELSE [allowed |-> FALSE, userType |-> "none", reason |-> "Forbidden"]

canSupabaseUserAccessTrip(supabaseUserId, tripId) ==
    LET tripDriverId == resolveTripDriverId(tripId)
        driverId == getDriverIdBySupabaseUserId(supabaseUserId)
        parentId == getParentIdBySupabaseUserId(supabaseUserId)
    IN  IF tripDriverId = NoDriver
        THEN [allowed |-> FALSE, userType |-> "none", reason |-> "Trip not found"]
        ELSE IF driverId # NoDriver /\ driverId = tripDriverId
        THEN [allowed |-> TRUE, userType |-> "driver", reason |-> "Forbidden"]
        ELSE IF parentId = NoParent
        THEN [allowed |-> FALSE, userType |-> "none",
              reason |-> "Only linked parent can access this trip"]
        ELSE IF ~isParentLinkedToDriver(parentId, tripDriverId)
        THEN [allowed |-> FALSE, userType |-> "none",
              reason |-> "Parent is not linked to this driver"]
        ELSE [allowed |-> TRUE, userType |-> "parent", reason |-> "Forbidden"]

\* mutant: the middleware lets every handshake through
createSocketJwtMiddleware_NoCheck(token) ==
    [ok |-> TRUE, userId |-> IF token \in SocketUsers THEN token ELSE NoUser,
     message |-> "ok"]

\* createSocketJwtMiddleware: the outcome of next() for the token presented
createSocketJwtMiddleware(token) ==
    IF token = "missing"
    THEN [ok |-> FALSE, userId |-> NoUser, message |-> "Missing bearer token"]
    ELSE IF token \notin SocketUsers
    THEN [ok |-> FALSE, userId |-> NoUser, message |-> "Invalid or expired token"]
    ELSE [ok |-> TRUE, userId |-> token, message |-> "ok"]

tripRoom(tripId) == {c \in Connections : <<tripId, c>> \in io.rooms}

AckFrame(c, ok, message) ==
    [event |-> "ack", to |-> {c}, tripId |-> "none",
     data |-> [ok |-> ok, message |-> message]]

\* the handshake: io.use(createSocketJwtMiddleware()), then the connection handler
Connect(c, token) ==
    LET verdict == createSocketJwtMiddleware(token)
    IN  /\ ~io.sockets[c].open
        /\ IF verdict.ok
           THEN /\ io' = [io EXCEPT !.sockets[c] = [open |-> TRUE, userId |-> verdict.userId],
                                    !.sent = <<>>]
                /\ lastCall' = Done("connect")
           ELSE /\ io' = [io EXCEPT !.sent = <<>>]
                /\ lastCall' = Failed("connect", verdict.message)
        /\ UNCHANGED <<store, now, logs, samples, calls>>

\* the socket closes: it leaves its rooms
Disconnect(c) ==
    /\ io.sockets[c].open
    /\ io' = [io EXCEPT !.sockets[c] = ClosedSocket,
                        !.rooms = {r \in io.rooms : r[2] # c},
                        !.denied = {r \in io.denied : r[2] # c},
                        !.sent = <<>>]
    /\ lastCall' = Done("disconnect")
    /\ UNCHANGED <<store, now, logs, samples, calls>>

\* what a refused parent:subscribe_trip leaves behind
SubscribeDenied(c, tripId, message) ==
    /\ io' = [io EXCEPT !.sent = <<AckFrame(c, FALSE, message)>>,
                        !.denied = io.denied \cup {<<tripId, c>>}]
    /\ lastCall' = Failed("subscribe", message)

\* socket.on("parent:subscribe_trip")
SubscribeTrip(c, tripId, storeError) ==
    LET userId == io.sockets[c].userId
        access == canSupabaseUserAccessTrip(userId, tripId)
    IN  /\ io.sockets[c].open
        /\ IF userId = NoUser
           THEN SubscribeDenied(c, tripId, "Unauthenticated")
           ELSE IF tripId \notin TripIds
           THEN SubscribeDenied(c, tripId, "Invalid subscribe payload")
           ELSE IF storeError
           THEN SubscribeDenied(c, tripId, "Subscription failed")
           ELSE IF ~access.allowed \/ access.userType # "parent"
           THEN SubscribeDenied(c, tripId, access.reason)
           ELSE /\ io' = [io EXCEPT !.rooms = io.rooms \cup {<<tripId, c>>},
                                    !.denied = io.denied \ {<<tripId, c>>},
                                    !.sent = <<AckFrame(c, TRUE, "ok")>>]
                /\ lastCall' = Done("subscribe")
        /\ Resume(c, IdleCall)
        /\ UNCHANGED <<store, now, logs, samples>>

LocationFrame(members, tripId) ==
    [event |-> "trip:location_broadcast", to |-> members, tripId |-> tripId,
     data |-> [latitude |-> latest[tripId].latitude', longitude |-> latest[tripId].longitude',
               recordedAt |-> latest[tripId].recordedAt']]

GeofenceFrames(members, tripId, geofenceEvents) ==
    [i \in 1..Len(geofenceEvents) |->
        [event |-> "trip:geofence_event", to |-> members, tripId |-> tripId,
         data |-> geofenceEvents[i]]]

\* mutant: the acknowledgement is sent before the broadcasts
broadcastSaved_AckFirst(c, members, tripId, geofenceEvents) ==
    <<AckFrame(c, TRUE, "ok")>> \o <<LocationFrame(members, tripId)>>
        \o GeofenceFrames(members, tripId, geofenceEvents)

\* the frames of a successful driver:location_update, in the order sent
broadcastSaved(c, members, tripId, geofenceEvents) ==
    <<LocationFrame(members, tripId)>> \o GeofenceFrames(members, tripId, geofenceEvents)
        \o <<AckFrame(c, TRUE, "ok")>>

\* what the store fails during a driver:location_update: nothing, the first
\* query, or one of the inserts of saveDriverLocation
StoreErrors == InsertFailures \cup {"query"}

\* mutant: the handler joins the trip's group before it saves the sample
OnLocationUpdate_JoinFirst(c, payload, storeError) ==
    LET userId == io.sockets[c].userId
        joined == io.rooms \cup {<<payload.tripId, c>>}
        members == {m \in Connections : <<payload.tripId, m>> \in joined}
    IN  /\ io.sockets[c].open
        /\ IF storeError = "query" /\ locationUpdateSchema(payload)
           THEN /\ lastCall' = Failed("location_update", "Location update failed")
                /\ UNCHANGED <<store, now, logs, samples>>
           ELSE LocationUpdateWith(userId, payload, storeError)
        /\ Resume(c, IdleCall)
        /\ io' = IF lastCall'.ok
                 THEN [io EXCEPT !.rooms = joined,
                                 !.sent = broadcastSaved(c, members, payload.tripId,
                                              SubSeq(emitted', Len(emitted) + 1, Len(emitted')))]
                 ELSE [io EXCEPT !.rooms = joined,
                                 !.sent = <<AckFrame(c, FALSE, lastCall'.message)>>]

\* socket.on("driver:location_update"): saveDriverLocation, then the join,
\* the broadcasts and the acknowledgement
OnLocationUpdate(c, payload, storeError) ==
    LET userId == io.sockets[c].userId
        joined == io.rooms \cup {<<payload.tripId, c>>}
        members == {m \in Connections : <<payload.tripId, m>> \in joined}
    IN  /\ io.sockets[c].open
        /\ IF storeError = "query" /\ locationUpdateSchema(payload)
           THEN /\ lastCall' = Failed("location_update", "Location update failed")
                /\ UNCHANGED <<store, now, logs, samples>>
           ELSE LocationUpdateWith(userId, payload, storeError)
        /\ Resume(c, IdleCall)
        /\ io' = IF lastCall'.ok
                 THEN [io EXCEPT !.rooms = joined,
                                 !.sent = broadcastSaved(c, members, payload.tripId,
                                              SubSeq(emitted', Len(emitted) + 1, Len(emitted')))]
                 ELSE [io EXCEPT !.sent = <<AckFrame(c, FALSE, lastCall'.message)>>]

(***************************************************************************)
(* Clients connecting, subscribing, publishing and leaving, with the        *)
(* trip's checkpoint created by the administrator.                         *)
(***************************************************************************)
NextSock ==
    \/ /\ \E c \in Connections, token \in HandshakeTokens : Connect(c, token)
       /\ UNCHANGED retention
    \/ /\ \E c \in Connections : Disconnect(c)
       /\ UNCHANGED retention
    \/ /\ \E c \in Connections, tripId \in TripIds \cup {"not-a-uuid"}, storeError \in BOOLEAN :
             SubscribeTrip(c, tripId, storeError)
       /\ UNCHANGED retention
    \/ /\ samples < MaxSockSamples
       /\ \E c \in Connections, storeError \in StoreErrors,
             payload \in LocationPayloads(TripIds, {S2, BadPos}, GeoRecordedAtInputs) :
               OnLocationUpdate(c, payload, storeError)
       /\ UNCHANGED retention
    \/ \E label \in Labels : UpsertGeofencePoint("t1", label, G1, NoRadius, Absent)

SpecSock == Init /\ [][NextSock]_vars

(***************************************************************************)
(* The two socket handlers with the await of their authorization query as  *)
(* a position of its own: the call is in flight from the event to the      *)
(* store's answer, and the store answers the query or never does.  The     *)
(* handlers set no timer and race the query against nothing.               *)
(***************************************************************************)
WirePayload(full) ==
    [tripId |-> full.tripId, latitude |-> full.latitude, longitude |-> full.longitude,
     tripPhase |-> full.tripPhase, recordedAt |-> full.recordedAt]

\* socket.on("parent:subscribe_trip") up to the await of canSupabaseUserAccessTrip
AwaitSubscribe(c, tripId, storeAnswers) ==
    LET userId == io.sockets[c].userId
    IN  /\ io.sockets[c].open
        /\ At(c, "idle")
        /\ IF userId = NoUser \/ tripId \notin TripIds
           THEN SubscribeTrip(c, tripId, FALSE)
           ELSE /\ Resume(c, [IdleCall EXCEPT !.pc = "canSupabaseUserAccessTrip",
                                              !.payload.tripId = tripId,
                                              !.storeAnswers = storeAnswers])
                /\ lastCall' = Done("subscribe_received")
                /\ UNCHANGED <<store, now, logs, samples, io>>
        /\ UNCHANGED retention

\* the store answers canSupabaseUserAccessTrip: the rest of the handler
AnswerSubscribe(c) ==
    /\ At(c, "canSupabaseUserAccessTrip")
    /\ calls[c].storeAnswers
    /\ \E storeError \in BOOLEAN, tripId \in {calls[c].payload.tripId} :
          SubscribeTrip(c, tripId, storeError)
    /\ UNCHANGED retention

\* socket.on("driver:location_update") up to the await of
\* getDriverIdBySupabaseUserId
AwaitLocationUpdate(c, payload, storeAnswers) ==
    LET userId == io.sockets[c].userId
        full == [tripId |-> payload.tripId, driverId |-> NoDriver,
                 latitude |-> payload.latitude, longitude |-> payload.longitude,
                 tripPhase |-> payload.tripPhase, recordedAt |-> payload.recordedAt]
    IN  /\ io.sockets[c].open
        /\ At(c, "idle")
        /\ samples + Cardinality({other \in Connections :
                                     At(other, "getDriverIdBySupabaseUserId")}) < MaxPendCalls
        /\ IF userId = NoUser \/ ~locationUpdateSchema(payload)
           THEN OnLocationUpdate(c, payload, "none")
           ELSE /\ Resume(c, [IdleCall EXCEPT !.pc = "getDriverIdBySupabaseUserId",
                                              !.payload = full,
                                              !.storeAnswers = storeAnswers])
                /\ lastCall' = Done("location_update_received")
                /\ UNCHANGED <<store, now, logs, samples, io>>
        /\ UNCHANGED retention

\* the store answers getDriverIdBySupabaseUserId: the rest of the handler
AnswerLocationUpdate(c) ==
    /\ At(c, "getDriverIdBySupabaseUserId")
    /\ calls[c].storeAnswers
    /\ \E storeError \in StoreErrors, payload \in {WirePayload(calls[c].payload)} :
          OnLocationUpdate(c, payload, storeError)
    /\ UNCHANGED retention

\* what the runtime does for a connection once the store has answered
Answered(c) == AnswerSubscribe(c) \/ AnswerLocationUpdate(c)

NextPend ==
    \/ /\ \E c \in Connections, token \in {"invalid", "uA", "uP"} : Connect(c, token)
       /\ UNCHANGED retention
    \/ \E c \in Connections, tripId \in TripIds \cup {"not-a-uuid"}, storeAnswers \in BOOLEAN :
           AwaitSubscribe(c, tripId, storeAnswers)
    \/ \E c \in Connections, storeAnswers \in BOOLEAN,
          payload \in LocationPayloads(TripIds, {S2, BadPos}, GeoRecordedAtInputs) :
           AwaitLocationUpdate(c, payload, storeAnswers)
    \/ \E c \in Connections : AnswerSubscribe(c)
    \/ \E c \in Connections : AnswerLocationUpdate(c)

SpecPend == Init /\ [][NextPend]_vars

\* the event loop runs the rest of a handler once its query is answered
SpecPendLive == SpecPend /\ \A c \in Connections : WF_vars(Answered(c))

(***************************************************************************)
(* Read path.                                                              *)
(***************************************************************************)
getTripSession(tripId) ==
    IF tripId \in DOMAIN sessions
    THEN [found |-> TRUE, status |-> sessions[tripId].status]
    ELSE [found |-> FALSE, status |-> "none"]

getLatestTripLocation(tripId) ==
    IF tripId \in DOMAIN latest
    THEN [found |-> TRUE, latitude |-> latest[tripId].latitude,
          longitude |-> latest[tripId].longitude,
          recordedAt |-> latest[tripId].recordedAt]
    ELSE [found |-> FALSE, latitude |-> 0, longitude |-> 0, recordedAt |-> NullTime]

HistoryOf(tripId) == SelectSeq(history, LAMBDA h : h.tripId = tripId)

(***************************************************************************)
(* Playback.  A reply records the query, the HTTP status and the tables    *)
(* the request read, in the order read.                                    *)
(***************************************************************************)
\* users_meta rows with role admin
admins == {"uZ"}

\* the callers of the playback routes: the driver, a linked parent, an administrator
HttpUsers == {"uA", "uP"} \cup admins

\* query.from and query.to: absent (NullTime) or an instant
FromInputs == {NullTime, 10}
ToInputs == {NullTime, 5}
OrderInputs == {Absent, "desc"}
NoLimit == 0
LimitInputs == {NoLimit, 2}

\* the message of the range rejection
RangeMessage == "from must be earlier than or equal to to"

\* averageSpeedKmh of a reply whose duration is 0
NoSpeed == 0 - 1

RECURSIVE totalDistanceBetween_FromFirst(_, _)
\* mutant: every point's distance is taken from the first returned point
totalDistanceBetween_FromFirst(rows, index) ==
    IF index > Len(rows) THEN 0
    ELSE distanceMetersBetween(
             [latitude |-> rows[1].latitude, longitude |-> rows[1].longitude],
             [latitude |-> rows[index].latitude, longitude |-> rows[index].longitude])
         + totalDistanceBetween_FromFirst(rows, index + 1)

RECURSIVE totalDistanceBetween(_, _)
\* the loop of buildPlaybackStats from index on: the distances of consecutive
\* points, in metres
totalDistanceBetween(rows, index) ==
    IF index > Len(rows) THEN 0
    ELSE distanceMetersBetween(
             [latitude |-> rows[index - 1].latitude, longitude |-> rows[index - 1].longitude],
             [latitude |-> rows[index].latitude, longitude |-> rows[index].longitude])
         + totalDistanceBetween(rows, index + 1)

\* mutant: the duration is the absolute difference of the two timestamps
buildPlaybackStats_AbsDuration(rows) ==
    IF Len(rows) = 0
    THEN [totalPoints |-> 0, totalDistanceKm |-> 0, durationSeconds |-> 0,
          averageSpeedKmh |-> NoSpeed, startedAt |-> NullTime, endedAt |-> NullTime]
    ELSE LET totalDistanceKm == totalDistanceBetween(rows, 2)
             startDate == rows[1].recordedAt
             endDate == rows[Len(rows)].recordedAt
             durationSeconds == IF endDate - startDate > 0 THEN endDate - startDate
                                ELSE startDate - endDate
         IN  [totalPoints |-> Len(rows),
              totalDistanceKm |-> totalDistanceKm,
              durationSeconds |-> durationSeconds,
              averageSpeedKmh |->
                  IF durationSeconds > 0
                  THEN (totalDistanceKm * 720 + durationSeconds) \div (2 * durationSeconds)
                  ELSE NoSpeed,
              startedAt |-> rows[1].recordedAt,
              endedAt |-> rows[Len(rows)].recordedAt]

\* buildPlaybackStats, with totalDistanceKm in metres and averageSpeedKmh in
\* hundredths of km/h (toFixed(3), toFixed(2)), rounded to nearest
buildPlaybackStats(rows) ==
    IF Len(rows) = 0
    THEN [totalPoints |-> 0, totalDistanceKm |-> 0, durationSeconds |-> 0,
          averageSpeedKmh |-> NoSpeed, startedAt |-> NullTime, endedAt |-> NullTime]
    ELSE LET totalDistanceKm == totalDistanceBetween(rows, 2)
             startDate == rows[1].recordedAt
             endDate == rows[Len(rows)].recordedAt
             durationSeconds == IF endDate - startDate > 0 THEN endDate - startDate ELSE 0
         IN  [totalPoints |-> Len(rows),
              totalDistanceKm |-> totalDistanceKm,
              durationSeconds |-> durationSeconds,
              averageSpeedKmh |->
                  IF durationSeconds > 0
                  THEN (totalDistanceKm * 720 + durationSeconds) \div (2 * durationSeconds)
                  ELSE NoSpeed,
              startedAt |-> rows[1].recordedAt,
              endedAt |-> rows[Len(rows)].recordedAt]

\* a reply; one without playback carries no point and the stats of none
PlaybackReply(op, status, message, query, reads, rows) ==
    [op |-> op, ok |-> status = 200, message |-> message, status |-> status,
     query |-> query, reads |-> reads, points |-> rows,
     stats |-> buildPlaybackStats(rows)]

\* the tables canSupabaseUserAccessTrip reads, in order
accessReads(supabaseUserId, tripId) ==
    LET tripDriverId == resolveTripDriverId(tripId)
        driverId == getDriverIdBySupabaseUserId(supabaseUserId)
        parentId == getParentIdBySupabaseUserId(supabaseUserId)
        resolveReads == IF tripId \in DOMAIN latest
                        THEN <<"active_trip_locations">>
                        ELSE <<"active_trip_locations", "driver_trip_sessions">>
    IN  IF tripDriverId = NoDriver THEN resolveReads
        ELSE IF driverId # NoDriver /\ driverId = tripDriverId
        THEN resolveReads \o <<"drivers">>
        ELSE IF parentId = NoParent THEN resolveReads \o <<"drivers", "parents">>
        ELSE resolveReads \o <<"drivers", "parents", "children">>

\* the history rows of the query: trip_id = tripId, recorded_at within the
\* range, as indexes into history
playbackMatches(tripId, query) ==
    {i \in 1..Len(history) :
        /\ history[i].tripId = tripId
        /\ (query.from # NullTime => history[i].recordedAt >= toIsoOrNow(query.from))
        /\ (query.to # NullTime => history[i].recordedAt <= toIsoOrNow(query.to))}

\* every way the store may return the rows ordered by recorded_at
playbackOrderings(matches, ascending) ==
    {f \in [1..Cardinality(matches) -> matches] :
        /\ \A i, j \in 1..Cardinality(matches) : i # j => f[i] # f[j]
        /\ \A i, j \in 1..Cardinality(matches) :
              i < j => IF ascending
                       THEN history[f[i]].recordedAt <= history[f[j]].recordedAt
                       ELSE history[f[i]].recordedAt >= history[f[j]].recordedAt}

\* getTripPlayback: the points of the reply for one ordering of the store
getTripPlayback(query, ordering) ==
    LET safeLimit == IF query.limit = NoLimit THEN 300
                     ELSE IF query.limit < 1 THEN 1
                     ELSE IF query.limit > 1000 THEN 1000 ELSE query.limit
        kept == IF Len(ordering) <= safeLimit THEN Len(ordering) ELSE safeLimit
    IN  [i \in 1..kept |->
            [latitude |-> history[ordering[i]].latitude,
             longitude |-> history[ordering[i]].longitude,
             recordedAt |-> history[ordering[i]].recordedAt]]

RangeInverted(query) ==
    query.from # NullTime /\ query.to # NullTime /\ query.from > query.to

\* GET /tracking/trips/:tripId/playback
Playback(userId, tripId, query) ==
    LET access == canSupabaseUserAccessTrip(userId, tripId)
        reads == accessReads(userId, tripId)
    IN  /\ IF RangeInverted(query)
           THEN lastCall' = PlaybackReply("playback", 400,
                                RangeMessage,
                                query, <<>>, <<>>)
           ELSE IF ~access.allowed
           THEN lastCall' = PlaybackReply("playback", 403, access.reason, query, reads, <<>>)
           ELSE \E ordering \in playbackOrderings(playbackMatches(tripId, query),
                                                  query.order # "desc") :
                   lastCall' = PlaybackReply("playback", 200, "ok", query,
                                   reads \o <<"trip_location_history">>,
                                   getTripPlayback(query, ordering))
        /\ UNCHANGED <<store, now, logs, samples, calls, io, retention>>

\* GET /admin/tracking/trips/:tripId/playback, behind the preHandler hook of
\* the admin routes that reads the caller's role from users_meta
AdminPlayback(userId, tripId, query) ==
    LET hookReads == <<"users_meta">>
    IN  /\ IF userId \notin admins
           THEN lastCall' = PlaybackReply("admin_playback", 403, "Admin access required",
                                query, hookReads, <<>>)
           ELSE IF RangeInverted(query)
           THEN lastCall' = PlaybackReply("admin_playback", 400,
                                RangeMessage,
                                query, hookReads, <<>>)
           ELSE \E ordering \in playbackOrderings(playbackMatches(tripId, query),
                                                  query.order # "desc") :
                   lastCall' = PlaybackReply("admin_playback", 200, "ok", query,
                                   hookReads \o <<"trip_location_history">>,
                                   getTripPlayback(query, ordering))
        /\ UNCHANGED <<store, now, logs, samples, calls, io, retention>>

PlaybackQueries ==
    [from : FromInputs, to : ToInputs, order : OrderInputs, limit : LimitInputs]

(***************************************************************************)
(* Drivers starting trips and publishing, users and administrators         *)
(* querying the playback of a trip.                                        *)
(***************************************************************************)
NextPlay ==
    \/ /\ samples < MaxPlaySamples
       /\ \E payload \in LocationPayloads(TripIds, {S1, S2}, PlayRecordedAtInputs) :
             LocationUpdate("uA", payload)
       /\ UNCHANGED <<io, retention>>
    \/ \E userId \in HttpUsers, tripId \in TripIds, query \in PlaybackQueries :
           Playback(userId, tripId, query)
    \/ \E userId \in HttpUsers, tripId \in TripIds, query \in PlaybackQueries :
           AdminPlayback(userId, tripId, query)

SpecPlay == Init /\ [][NextPlay]_vars

(***************************************************************************)
(* Claims.                                                                 *)
(***************************************************************************)
AllPayloads == LocationPayloads(TripIds, SamplePositions, RecordedAtInputs)

Statuses == {"active", "paused", "completed"}

IsCompleted(tripId) ==
    tripId \in DOMAIN sessions /\ sessions[tripId].status = "completed"

\* C1: once a trip session is completed, no step (start, pause or end route,
\* startOrResume, location ingestion) changes that session's status.
C1_CompletedIsTerminal ==
    [][\A tripId \in TripIds :
          IsCompleted(tripId) => sessions'[tripId].status = "completed"]_vars

\* C2: a location update for a trip whose session is completed is answered
\* with an error and leaves every table as it was.
C2_CompletedIngestionRejected ==
    [][\A userId \in Users, payload \in AllPayloads :
          (/\ lastCall'.op = "location_update"
           /\ IsCompleted(payload.tripId)
           /\ LocationUpdate(userId, payload))
              => (~lastCall'.ok /\ UNCHANGED store)]_vars

OwnedByOther(tripId, driverId) ==
    \/ tripId \in DOMAIN sessions /\ sessions[tripId].driverId # driverId
    \/ tripId \in DOMAIN latest /\ latest[tripId].driverId # driverId

\* C3: when the trip's session row or latest-position row records another
\* driver, a location update and a start, pause or end call by this driver
\* fail, and no row of any table is created or changed.
C3_ForeignDriverRejected ==
    [][/\ \A userId \in DOMAIN drivers, payload \in AllPayloads :
            (/\ lastCall'.op = "location_update"
             /\ OwnedByOther(payload.tripId, drivers[userId])
             /\ LocationUpdate(userId, payload))
                => (~lastCall'.ok /\ UNCHANGED store)
       /\ \A userId \in DOMAIN drivers, tripId \in TripIds, status \in Statuses,
             bodyPhase \in PhaseInputs :
            (/\ lastCall'.op = "set_status"
             /\ OwnedByOther(tripId, drivers[userId])
             /\ SetStatus(userId, tripId, status, bodyPhase))
                => (~lastCall'.ok /\ UNCHANGED store)]_vars

\* a location update was refused at the ownership gate, on a trip that has rows
C3_Witness ==
    /\ lastCall = Failed("location_update", "Location update failed")
    /\ \E tripId \in DOMAIN sessions : tripId \in DOMAIN latest

\* C4: after a successful location update, getLatestTripLocation of the trip
\* returns that sample's latitude, longitude and recordedAt, whether or not
\* the sample went into the history.
C4_LatestIsLastSample ==
    [][\A userId \in Users, payload \in AllPayloads :
          (lastCall' = Done("location_update") /\ LocationUpdate(userId, payload))
              => getLatestTripLocation(payload.tripId)' =
                     [found |-> TRUE, latitude |-> payload.latitude,
                      longitude |-> payload.longitude,
                      recordedAt |-> toIsoOrNow(payload.recordedAt)]]_vars

\* a sample was accepted that the throttle kept out of the history
C4_Witness ==
    /\ lastCall = Done("location_update")
    /\ \E tripId \in DOMAIN latest :
          /\ HistoryOf(tripId) # <<>>
          /\ \A i \in 1..Len(HistoryOf(tripId)) :
                HistoryOf(tripId)[i].recordedAt # latest[tripId].recordedAt

Abs(x) == IF x < 0 THEN 0 - x ELSE x

HistorySpaced ==
    \A i, j \in 1..Len(history) :
        (i # j /\ history[i].tripId = history[j].tripId)
            => Abs(history[i].recordedAt - history[j].recordedAt)
                   >= HISTORY_SAVE_MIN_SECONDS

\* C5 as amended: any two history rows of a trip lie at least H seconds apart;
\* a sample on a trip without history leaves one row; a sample on a trip with
\* one row leaves two rows when its recordedAt is at least H seconds later
\* than that row's, and one row otherwise (less than H later, or earlier).
C5_HistoryThrottle ==
    [][/\ HistorySpaced'
       /\ \A userId \in Users, payload \in AllPayloads :
            (lastCall' = Done("location_update") /\ LocationUpdate(userId, payload))
                => LET before == HistoryOf(payload.tripId)
                       recordedAt == toIsoOrNow(payload.recordedAt)
                   IN  /\ Len(before) = 0 => Len(HistoryOf(payload.tripId)') = 1
                       /\ Len(before) = 1 =>
                            Len(HistoryOf(payload.tripId)') =
                               IF recordedAt - before[1].recordedAt
                                     >= HISTORY_SAVE_MIN_SECONDS
                               THEN 2 ELSE 1]_vars

\* C5 as claimed: two samples whose recordedAt values lie at least H seconds
\* apart, in either order, leave two rows, and one row otherwise.
C5_HistoryThrottle_AsClaimed ==
    [][\A userId \in Users, payload \in AllPayloads :
          (lastCall' = Done("location_update") /\ LocationUpdate(userId, payload))
              => LET before == HistoryOf(payload.tripId)
                     recordedAt == toIsoOrNow(payload.recordedAt)
                 IN  Len(before) = 1 =>
                        Len(HistoryOf(payload.tripId)') =
                           IF Abs(recordedAt - before[1].recordedAt)
                                 >= HISTORY_SAVE_MIN_SECONDS
                           THEN 2 ELSE 1]_vars

\* a second sample, exactly H seconds after the stored row, left a second row
C5_Witness ==
    /\ lastCall = Done("location_update")
    /\ \E tripId \in DOMAIN latest :
          /\ Len(HistoryOf(tripId)) = 2
          /\ HistoryOf(tripId)[2].recordedAt - HistoryOf(tripId)[1].recordedAt
                 = HISTORY_SAVE_MIN_SECONDS

(***************************************************************************)
(* Geofence claims, under SpecGeo.                                         *)
(***************************************************************************)
PointIds == {PointId(tripId, label) : tripId \in TripIds, label \in Labels}

\* the event types emitted for a point, in emission order
EmittedFor(pointId) ==
    LET own == SelectSeq(emitted, LAMBDA e : e.pointId = pointId)
    IN  [i \in 1..Len(own) |-> own[i].eventType]

\* the comparisons the detection loop made for a point, in order
EvaluatedFor(pointId) == SelectSeq(evaluated, LAMBDA v : v.pointId = pointId)

CountOf(seq, x) == Cardinality({i \in 1..Len(seq) : seq[i] = x})

\* no retention sweep has deleted a geofence event row
NothingSwept == Len(events) = Len(emitted)

\* the point had the same place and radius at every comparison
FixedGeometry(pointId) ==
    \A i, j \in 1..Len(EvaluatedFor(pointId)) :
        /\ EvaluatedFor(pointId)[i].latitude = EvaluatedFor(pointId)[j].latitude
        /\ EvaluatedFor(pointId)[i].longitude = EvaluatedFor(pointId)[j].longitude
        /\ EvaluatedFor(pointId)[i].radiusM = EvaluatedFor(pointId)[j].radiusM

AllInsideIncreasing(pointId) ==
    LET own == EvaluatedFor(pointId)
    IN  /\ Len(own) >= 1
        /\ \A i \in 1..Len(own) : own[i].isInside
        /\ \A i \in 1..(Len(own) - 1) : own[i].recordedAt < own[i + 1].recordedAt

\* C6: samples with increasing recordedAt that all lie inside a fixed active
\* checkpoint produce exactly one reached and exactly one entered event for
\* the point, however many there are.
C6_InsideIsIdempotent ==
    \A pointId \in PointIds :
        (NothingSwept /\ FixedGeometry(pointId) /\ AllInsideIncreasing(pointId))
            => /\ CountOf(EmittedFor(pointId), "reached") = 1
               /\ CountOf(EmittedFor(pointId), "entered") = 1

InsideFlags(pointId) ==
    [i \in 1..Len(EvaluatedFor(pointId)) |-> EvaluatedFor(pointId)[i].isInside]

\* C7: on a checkpoint never visited before, samples outside, inside, outside,
\* inside emit reached, entered, exited, entered for the point, in that order.
C7_ToggleSequence ==
    \A pointId \in PointIds :
        (/\ NothingSwept
         /\ FixedGeometry(pointId)
         /\ InsideFlags(pointId) = <<FALSE, TRUE, FALSE, TRUE>>)
            => EmittedFor(pointId) = <<"reached", "entered", "exited", "entered">>

\* the entered and exited events of a point, in emission order
Toggles(pointId) ==
    SelectSeq(EmittedFor(pointId), LAMBDA t : t \in {"entered", "exited"})

\* C8: the entered and exited events emitted for a point alternate in emission
\* order, starting with entered, whatever recordedAt values the samples carry.
C8_EnterExitAlternate ==
    \A pointId \in PointIds :
        NothingSwept =>
            \A i \in 1..Len(Toggles(pointId)) :
                Toggles(pointId)[i] = IF i % 2 = 1 THEN "entered" ELSE "exited"

\* C9: over ingestions, checkpoint upserts and retention sweeps, a reached
\* event is emitted at most once for each point.
C9_ReachedAtMostOnce ==
    \A pointId \in PointIds : CountOf(EmittedFor(pointId), "reached") <= 1

\* at most one reached row exists for each point
OneReachedRowPerPoint ==
    \A pointId \in PointIds :
        Cardinality({i \in 1..Len(events) :
                        events[i].pointId = pointId /\ events[i].eventType = "reached"}) <= 1

\* no two entered and no two exited events are emitted one after the other
NoRepeatedToggle ==
    \A pointId \in PointIds :
        \A i \in 1..(Len(Toggles(pointId)) - 1) :
            Toggles(pointId)[i] # Toggles(pointId)[i + 1]

\* C10: under every interleaving of concurrent location updates for one trip,
\* at most one reached event exists per point and the entered and exited
\* events emitted for a point never repeat consecutively.
C10_ConcurrentDetectionSerialized == OneReachedRowPerPoint /\ NoRepeatedToggle

(***************************************************************************)
(* Concurrent throttle, under SpecConc.                                    *)
(***************************************************************************)
\* C11: under every interleaving of concurrent location updates for one trip,
\* no two history rows of the trip have recordedAt values less than H seconds
\* apart.
C11_ConcurrentThrottle ==
    \A tripId \in TripIds :
        \A i, j \in 1..Len(HistoryOf(tripId)) :
            i # j => Abs(HistoryOf(tripId)[i].recordedAt - HistoryOf(tripId)[j].recordedAt)
                        >= HISTORY_SAVE_MIN_SECONDS

(***************************************************************************)
(* Dissemination claims, under SpecSock.                                   *)
(***************************************************************************)
SubscribeInputs == TripIds \cup {"not-a-uuid"}

\* the user is a parent with a child linked to the trip's driver
LinkedParent(userId, tripId) ==
    /\ tripId \in TripIds
    /\ resolveTripDriverId(tripId) # NoDriver
    /\ userId \in DOMAIN parents
    /\ <<parents[userId], resolveTripDriverId(tripId)>> \in children

\* the frames of the last handler that were broadcast to a room
Broadcasts == {f \in Rows(io.sent) : f.event # "ack"}

\* a subscribe joins exactly the linked parents and refuses the others
SubscribeJoinsLinkedParentsOnly ==
    \A c \in Connections, tripId \in SubscribeInputs :
        (lastCall'.op = "subscribe" /\ SubscribeTrip(c, tripId, FALSE))
            => IF LinkedParent(io.sockets[c].userId, tripId)
               THEN /\ lastCall'.ok
                    /\ io'.rooms = io.rooms \cup {<<tripId, c>>}
               ELSE /\ ~lastCall'.ok
                    /\ io'.rooms = io.rooms
                    /\ io'.sent = <<AckFrame(c, FALSE, lastCall'.message)>>

\* C12 as amended: a subscribe joins the connection if and only if its user is
\* a parent linked to the trip's driver; any other caller is refused and the
\* refusal changes no room; broadcasts reach room members only, and a room
\* holds only connections of linked parents (joined by a subscribe) and of the
\* trip's driver (joined by its own publish).
C12_SubscribeAuthorization ==
    [][/\ SubscribeJoinsLinkedParentsOnly
       /\ \A f \in Broadcasts' : \A c \in f.to : <<f.tripId, c>> \in io'.rooms
       /\ \A r \in io'.rooms :
             \/ LinkedParent(io.sockets[r[2]].userId, r[1])'
             \/ getDriverIdBySupabaseUserId(io'.sockets[r[2]].userId)
                   = resolveTripDriverId(r[1])']_vars

\* C12 as claimed: no broadcast of a trip reaches a connection whose subscribe
\* to that trip was refused, the trip's own driver included.
C12_SubscribeAuthorization_AsClaimed ==
    [][/\ SubscribeJoinsLinkedParentsOnly
       /\ \A f \in Broadcasts' : \A c \in f.to : <<f.tripId, c>> \notin io'.denied]_vars

\* a sample was broadcast while a parent whose subscribe to the trip was
\* refused, still connected, got nothing
C12_Witness ==
    /\ lastCall = Done("location_update")
    /\ \E f \in Broadcasts :
          \E r \in io.denied :
              /\ r[1] = f.tripId
              /\ io.sockets[r[2]].userId \in DOMAIN parents
              /\ r[2] \notin f.to

\* the geofence events the step's sample produced, in the order emitted
NewGeofenceEvents == SubSeq(emitted', Len(emitted) + 1, Len(emitted'))

\* the members of the trip's group after the step
RoomAfter(tripId) == {m \in Connections : <<tripId, m>> \in io'.rooms}

\* the frames of the step are: the sample to the trip's group, then every
\* geofence event of the sample to the same group in emission order, then
\* the ok:true acknowledgement to the publisher c
PublishedInOrder(c, tripId) ==
    LET geo == NewGeofenceEvents
        room == RoomAfter(tripId)
        sent == io'.sent
    IN  /\ io'.rooms = io.rooms \cup {<<tripId, c>>}
        /\ Len(sent) = Len(geo) + 2
        /\ sent[1].event = "trip:location_broadcast"
        /\ sent[1].to = room
        /\ sent[1].tripId = tripId
        /\ sent[1].data.recordedAt = latest'[tripId].recordedAt
        /\ \A i \in 1..Len(geo) :
              /\ sent[i + 1].event = "trip:geofence_event"
              /\ sent[i + 1].to = room
              /\ sent[i + 1].data = geo[i]
        /\ sent[Len(sent)].event = "ack"
        /\ sent[Len(sent)].to = {c}
        /\ sent[Len(sent)].data.ok

\* C13: a successful driver:location_update joins the publisher to the
\* trip's group, then broadcasts the sample to the members of that group
\* and to no one else, then broadcasts each geofence event of the sample
\* as its own message in emission order, and acknowledges ok:true last.
C13_PublishOrder ==
    [][(samples' = samples + 1 /\ lastCall'.ok) =>
          \E c \in Connections, tripId \in TripIds :
              /\ io.sockets[c].open
              /\ PublishedInOrder(c, tripId)]_vars

\* a sample that produced two geofence events was broadcast to the driver
\* and a subscribed parent, while nothing was addressed outside the group
C13_Witness ==
    /\ lastCall = Done("location_update")
    /\ Len(io.sent) >= 4
    /\ io.sent[2].event = "trip:geofence_event"
    /\ io.sent[3].event = "trip:geofence_event"
    /\ io.sent[2].data # io.sent[3].data
    /\ Cardinality(io.sent[1].to) = 2
    /\ \E c \in io.sent[1].to : io.sockets[c].userId \in DOMAIN parents

\* the step is a parent:subscribe_trip or a driver:location_update that failed
HandlerFailed ==
    /\ lastCall'.op \in {"subscribe", "location_update"}
    /\ ~lastCall'.ok

\* C14: a failing driver:location_update or parent:subscribe_trip (invalid
\* payload, not a driver, trip owned by another driver, store error) is
\* answered by one ok:false acknowledgement on the calling connection; it
\* broadcasts nothing, joins no group, and leaves every connection open.
C14_FailureAck ==
    [][HandlerFailed =>
          /\ \E c \in Connections :
                /\ io.sockets[c].open
                /\ io'.sent = <<AckFrame(c, FALSE, lastCall'.message)>>
          /\ Broadcasts' = {}
          /\ io'.rooms = io.rooms
          /\ io'.sockets = io.sockets]_vars

\* a driver that does not own the trip published to it: the call failed
\* with an ok:false acknowledgement while the trip's group had members,
\* on a connection whose earlier subscribe had failed as well
C14_Witness ==
    /\ lastCall = Failed("location_update", "Location update failed")
    /\ "t1" \in DOMAIN sessions
    /\ \E c \in Connections :
          /\ io.sent = <<AckFrame(c, FALSE, "Location update failed")>>
          /\ io.sockets[c].open
          /\ getDriverIdBySupabaseUserId(io.sockets[c].userId)
                \notin {NoDriver, sessions["t1"].driverId}
          /\ <<"t1", c>> \in io.denied
          /\ <<"t1", c>> \notin io.rooms
          /\ tripRoom("t1") # {}

\* C15: a socket whose handshake carries no bearer token, or one that does
\* not verify, is rejected by the middleware: the connection handler never
\* runs for it, so every open connection carries a verified user, and only
\* open connections are members of a group or recipients of a frame.
C15_HandshakeGate ==
    /\ \A c \in Connections :
          io.sockets[c].open => io.sockets[c].userId \in SocketUsers
    /\ \A r \in io.rooms : io.sockets[r[2]].open
    /\ \A f \in Rows(io.sent) : \A c \in f.to : io.sockets[c].open
    /\ (lastCall.op = "connect" /\ ~lastCall.ok) => io.sent = <<>>

\* a handshake without a token was just rejected: the connection is closed
\* and outside the group of a trip that has members
C15_Witness ==
    /\ lastCall = Failed("connect", "Missing bearer token")
    /\ tripRoom("t1") # {}
    /\ \E c \in Connections : ~io.sockets[c].open /\ c \notin tripRoom("t1")

\* C16: a playback query with both from and to given and from later than
\* to, sent by a caller the route admits, is answered 400 before any store
\* read: neither the access-check lookups nor the history query have run.
C16_RangeRejectedBeforeReads ==
    (/\ lastCall.op \in {"playback", "admin_playback"}
     /\ RangeInverted(lastCall.query)
     /\ ~(lastCall.op = "admin_playback" /\ lastCall.status = 403))
        => /\ lastCall.status = 400
           /\ lastCall.reads = <<>>

\* the driver's sessions in status active or paused
OpenOf(driverId) ==
    {t \in DOMAIN sessions :
        sessions[t].driverId = driverId /\ sessions[t].status \in {"active", "paused"}}

\* the step left every session but tripId's as it was
OtherSessionsKept(tripId) ==
    \A u \in DOMAIN sessions : u # tripId => sessions'[u] = sessions[u]

\* one of the driver's open sessions is active after the step, under the
\* same tripId, and no row was added
Resumed(driverId) ==
    /\ DOMAIN sessions' = DOMAIN sessions
    /\ \E t \in OpenOf(driverId) :
          /\ sessions'[t].status = "active"
          /\ sessions'[t].driverId = driverId
          /\ OtherSessionsKept(t)

\* exactly one row was added: a tripId no row carried, active, endedAt null
Created(driverId) ==
    \E t \in UuidSpace :
        /\ t \notin DOMAIN sessions
        /\ t \notin DOMAIN latest
        /\ \A i \in 1..Len(history) : history[i].tripId # t
        /\ DOMAIN sessions' = DOMAIN sessions \cup {t}
        /\ sessions'[t].driverId = driverId
        /\ sessions'[t].status = "active"
        /\ sessions'[t].endedAt = NullTime
        /\ OtherSessionsKept(t)

\* C17: startOrResume, run without overlapping calls: a driver with a
\* session in status active or paused gets that session back in status
\* active and no row is created; a driver without one gets exactly one new
\* session with a fresh tripId, status active and endedAt null.
C17_StartOrResume ==
    [][\A userId \in Users, bodyPhase \in PhaseInputs :
          LET driverId == getDriverIdBySupabaseUserId(userId)
          IN  (/\ driverId # NoDriver
               /\ lastCall'.ok
               /\ StartOrResume(userId, bodyPhase))
                  => IF OpenOf(driverId) # {}
                     THEN Resumed(driverId)
                     ELSE Created(driverId)]_vars

\* a driver whose first trip is completed started again and got a second
\* session under another tripId
C17_Witness ==
    /\ lastCall = Done("start_or_resume")
    /\ DOMAIN sessions = UuidSpace
    /\ \E t, u \in UuidSpace :
          /\ t # u
          /\ sessions[t].status = "completed"
          /\ sessions[u].status = "active"
          /\ sessions[u].driverId = sessions[t].driverId
          /\ sessions[u].endedAt = NullTime

\* C18: a session comes into existence in status active only: a pause or
\* end call for a tripId that has no session fails and creates no row.
C18_BornActive ==
    [][/\ \A tripId \in UuidSpace :
             (tripId \notin DOMAIN sessions /\ tripId \in DOMAIN sessions')
                 => sessions'[tripId].status = "active"
       /\ \A userId \in Users, tripId \in TripIds, bodyPhase \in PhaseInputs :
             \A status \in {"paused", "completed"} :
                 (/\ tripId \notin DOMAIN sessions
                  /\ lastCall'.op = "set_status"
                  /\ SetStatus(userId, tripId, status, bodyPhase))
                     => (~lastCall'.ok /\ sessions' = sessions)]_vars

\* C19: in every reachable state a session's endedAt is set exactly when
\* its status is completed.
C19_EndedAtIffCompleted ==
    \A tripId \in DOMAIN sessions :
        (sessions[tripId].endedAt # NullTime) <=> (sessions[tripId].status = "completed")

\* C20: the latest position of a trip is never behind the trip's stored
\* history: its recordedAt is at least the recordedAt of every history row
\* of the trip, whatever the order in which client-supplied times arrive.
C20_LatestNotBehindHistory ==
    \A tripId \in DOMAIN latest :
        \A i \in 1..Len(history) :
            history[i].tripId = tripId
                => history[i].recordedAt <= latest[tripId].recordedAt

\* the sample passes the schema and the ownership gate, so the ingestion
\* reaches the latest-position upsert
ReachesLatestUpsert(c, payload) ==
    LET driverId == getDriverIdBySupabaseUserId(io.sockets[c].userId)
    IN  /\ io.sockets[c].open
        /\ locationUpdateSchema(payload)
        /\ driverId # NoDriver
        /\ assertTripOwnedByDriver(payload.tripId, driverId)

\* C21: when the history insert or a geofence-event insert fails after the
\* latest-position upsert of the same ingestion succeeded, the sample is
\* still accepted: the publish is acknowledged ok:true and the sample is
\* broadcast to the trip's group.
C21_AcceptedDespiteInsertFailure ==
    [][\A c \in Connections, failAt \in {"history", "event"},
          payload \in LocationPayloads(TripIds, {S2}, GeoRecordedAtInputs) :
          (/\ ReachesLatestUpsert(c, payload)
           /\ lastCall'.op = "location_update"
           /\ OnLocationUpdate(c, payload, failAt))
              => /\ lastCall'.ok
                 /\ \E f \in Broadcasts' :
                       f.event = "trip:location_broadcast" /\ c \in f.to]_vars

\* the position of a latest row: what a status change must leave alone
PositionOf(row) ==
    [driverId |-> row.driverId, latitude |-> row.latitude,
     longitude |-> row.longitude, recordedAt |-> row.recordedAt]

\* C22: setStatus changes only the session row and the tripPhase and
\* updatedAt of the trip's latest-position row: an existing row gets the
\* given phase and keeps latitude, longitude and recordedAt, no row is
\* created, and no history or geofence-event row is added or changed.
C22_SetStatusFrame ==
    [][\A userId \in Users, tripId \in TripIds, status \in Statuses,
          bodyPhase \in PhaseInputs :
          (/\ lastCall' = Done("set_status")
           /\ SetStatus(userId, tripId, status, bodyPhase))
              => /\ history' = history
                 /\ events' = events
                 /\ points' = points
                 /\ DOMAIN latest' = DOMAIN latest
                 /\ \A t \in DOMAIN latest :
                       /\ PositionOf(latest'[t]) = PositionOf(latest[t])
                       /\ t # tripId => latest'[t] = latest[t]
                 /\ tripId \in DOMAIN latest
                       => latest'[tripId].tripPhase = RoutePhase(status, bodyPhase)
                 /\ \A t \in DOMAIN sessions : t # tripId => sessions'[t] = sessions[t]]_vars

\* a trip with a stored position and history was paused: the latest row
\* carries the pause phase and the sample's position
C22_Witness ==
    /\ lastCall = Done("set_status")
    /\ "t1" \in DOMAIN latest
    /\ "t1" \in DOMAIN sessions
    /\ sessions["t1"].status = "paused"
    /\ latest["t1"].tripPhase = "picking_up"
    /\ latest["t1"].recordedAt = 5
    /\ history # <<>>

\* the totalDistanceKm a playback of the trip can report for the query in
\* the given order, one for each way the store may order the rows
DistancesOf(tripId, query, order) ==
    {buildPlaybackStats(getTripPlayback([query EXCEPT !.order = order], ordering)).totalDistanceKm :
        ordering \in playbackOrderings(playbackMatches(tripId, query), order # "desc")}

\* the limit of the query leaves out some of the rows in the range
CapBites(tripId, query) ==
    query.limit # NoLimit /\ Cardinality(playbackMatches(tripId, query)) > query.limit

SameDistanceBothOrders(tripId, query) ==
    \A asc \in DistancesOf(tripId, query, Absent) :
        \A desc \in DistancesOf(tripId, query, "desc") : asc = desc

IsPlayback(reply) == reply.op \in {"playback", "admin_playback"} /\ reply.status = 200

\* C24: the stats of a playback are derived from the returned points in
\* the returned order: durationSeconds is the last returned recordedAt
\* minus the first, floored at 0; averageSpeedKmh is null exactly when
\* durationSeconds is 0; startedAt and endedAt are the first and last
\* returned timestamps, or null when no point is returned.
C24_StatsFromReturnedPoints ==
    IsPlayback(lastCall) =>
        LET rows == lastCall.points
            stats == lastCall.stats
            first == rows[1].recordedAt
            last == rows[Len(rows)].recordedAt
        IN  /\ stats.totalPoints = Len(rows)
            /\ (stats.averageSpeedKmh = NoSpeed) <=> (stats.durationSeconds = 0)
            /\ IF Len(rows) = 0
               THEN /\ stats.durationSeconds = 0
                    /\ stats.startedAt = NullTime
                    /\ stats.endedAt = NullTime
               ELSE /\ stats.durationSeconds = (IF last - first > 0 THEN last - first ELSE 0)
                    /\ stats.startedAt = first
                    /\ stats.endedAt = last

\* a playback in order desc returned the newest point first: the duration
\* is floored at 0 and the average speed is null, over a path of 133 m
C24_Witness ==
    /\ IsPlayback(lastCall)
    /\ Len(lastCall.points) >= 2
    /\ lastCall.stats.startedAt > lastCall.stats.endedAt
    /\ lastCall.stats.durationSeconds = 0
    /\ lastCall.stats.averageSpeedKmh = NoSpeed
    /\ lastCall.stats.totalDistanceKm = 133

\* C25: the retention sweeper keeps running after a failed sweep and stops
\* at shutdown: a failed sweep is logged and leaves the timer as it was,
\* another sweep starts at the next interval unless the server closes
\* first, and once the onClose hook ran no new sweep starts.
C25_SweeperSurvivesFailure ==
    /\ [][(lastCall'.op = "cleanup" /\ ~lastCall'.ok) =>
            /\ retention'.last = "failed"
            /\ retention'.timer = retention.timer
            /\ retention'.closed = retention.closed]_vars
    /\ [][retention.closed => ~(~retention.running /\ retention'.running)]_vars
    /\ [](retention.closed => ~retention.timer)
    /\ (retention.last = "failed" /\ ~retention.running /\ ~retention.closed)
           ~> (retention.running \/ retention.closed)

\* a sweep is in flight after the one before it failed, the timer still set
C25_Witness ==
    /\ retention.last = "failed"
    /\ retention.running
    /\ retention.timer
    /\ ~retention.closed

\* the retention window in days that cleanupTrackingHistory derives from
\* its argument: the default for none, never less than one day
RetentionWindow(olderThanDays) ==
    LET chosen == IF olderThanDays = 0 THEN RETENTION_DEFAULT_DAYS ELSE olderThanDays
    IN  IF chosen > 1 THEN chosen ELSE 1

\* the rows of after are rows of before, in their order and unaltered
OnlyRemoved(before, after) ==
    after = SelectSeq(before, LAMBDA r : \E i \in 1..Len(after) : after[i] = r)

\* no row of before younger than the window is missing from after
YoungerKept(before, after, windowDays) ==
    \A i \in 1..Len(before) :
        before[i].createdAt >= now - windowDays * SecondsPerDay
            => \E j \in 1..Len(after) : after[j] = before[i]

\* C26: a retention sweep, completed or failed, only removes history and
\* geofence event rows older than the retention window (at least one day):
\* every younger row stays as it was, and no session, latest position or
\* geofence point is deleted or changed.
C26_SweepFrame ==
    [][lastCall'.op = "cleanup" =>
          /\ UNCHANGED <<sessions, latest, points>>
          /\ OnlyRemoved(history, history')
          /\ OnlyRemoved(events, events')
          /\ YoungerKept(history, history', 1)
          /\ YoungerKept(events, events', 1)
          /\ \A olderThanDays \in RetentionDaysInputs :
                (lastCall'.ok /\ cleanupTrackingHistory(olderThanDays)) =>
                    /\ YoungerKept(history, history', RetentionWindow(olderThanDays))
                    /\ YoungerKept(events, events', RetentionWindow(olderThanDays))]_vars

\* a completed sweep removed the day-old history row and geofence event and
\* kept the history row of the present moment, beside the trip's session,
\* latest position and checkpoint
C26_Witness ==
    /\ lastCall = Done("cleanup")
    /\ retention.last = "completed"
    /\ Len(history) = 1
    /\ history[1].createdAt = now
    /\ Len(events) < Len(emitted)
    /\ "t1" \in DOMAIN sessions
    /\ "t1" \in DOMAIN latest
    /\ DOMAIN points # {}

\* a call of the connection is in flight, its acknowledgement not yet sent
InFlight(c) == ~At(c, "idle")

\* C27: every parent:subscribe_trip and driver:location_update call is
\* eventually answered with an acknowledgement, also when the store never
\* responds to its authorization query.
C27_EveryCallAnswered == \A c \in Connections : InFlight(c) ~> ~InFlight(c)

\* every call whose authorization query the store answers is acknowledged
C27_AnsweredWhenStoreResponds ==
    \A c \in Connections : (InFlight(c) /\ calls[c].storeAnswers) ~> ~InFlight(c)

\* the driverId of every session and latest-position row is what it was
DriverIdsKept ==
    /\ \A tripId \in DOMAIN sessions :
          tripId \in DOMAIN sessions' /\ sessions'[tripId].driverId = sessions[tripId].driverId
    /\ \A tripId \in DOMAIN latest :
          tripId \in DOMAIN latest' /\ latest'[tripId].driverId = latest[tripId].driverId

\* C28: the driverId on a trip's session row and latest-position row never
\* changes once set, however the queries of ingestion and setStatus calls
\* of different drivers for the same tripId interleave, two drivers racing
\* on a tripId without rows included.
C28_DriverIdImmutable == [][DriverIdsKept]_vars

\* C29: a session's startedAt is fixed when its row is created: no later
\* start, pause or end call and no later location sample for the tripId
\* changes it.
C29_StartedAtFixed ==
    [][\A tripId \in DOMAIN sessions :
          tripId \in DOMAIN sessions' =>
              sessions'[tripId].startedAt = sessions[tripId].startedAt]_vars

\* the sessions of the driver that are active or paused
OpenSessionsOf(driverId) ==
    {tripId \in DOMAIN sessions :
        /\ sessions[tripId].driverId = driverId
        /\ sessions[tripId].status \in {"active", "paused"}}

\* C30: however the queries of concurrent startOrResume calls of one driver
\* interleave, the driver never has two sessions that are active or paused:
\* calls that find no open session create at most one between them.
C30_OneOpenSession ==
    \A userId \in DOMAIN drivers : Cardinality(OpenSessionsOf(drivers[userId])) <= 1

====
